---- MODULE Spec2Model ----
(***************************************************************************)
(* ts-mock-generator: the TypeScript declaration parser (lib/parser.ts)    *)
(* and the seeded mock-value generator (lib mock generator), as a state    *)
(* machine over a parsed source, the faker random stream and the clock.    *)
(***************************************************************************)
EXTENDS Integers, Sequences, FiniteSets, TLC

(***************************************************************************)
(* Bounds of the model.                                                    *)
(***************************************************************************)
MaxStack == 24      \* call-stack depth after which the engine throws RangeError
MaxSeed == 3        \* seeds are drawn from 0..MaxSeed
MaxQuantity == 2    \* quantity is drawn from 1..MaxQuantity
MaxClock == 1       \* the wall clock runs over 0..MaxClock
MaxTime == 4        \* a debounced function is followed over the milliseconds 0..MaxTime
MaxWait == 2        \* debounce's wait is drawn from 1..MaxWait
MaxCalls == 3       \* calls of a debounced function and of its cancel in one behaviour

(***************************************************************************)
(* JavaScript objects: insertion-ordered maps, as sequences of [k, v].     *)
(***************************************************************************)
HasKey(m, key) == \E i \in 1..Len(m) : m[i].k = key

Get(m, key) == m[CHOOSE i \in 1..Len(m) : m[i].k = key].v

Put(m, key, val) ==
  IF HasKey(m, key)
  THEN [i \in 1..Len(m) |-> IF m[i].k = key THEN [k |-> key, v |-> val] ELSE m[i]]
  ELSE Append(m, [k |-> key, v |-> val])

Keys(m) == [i \in 1..Len(m) |-> m[i].k]

KeySet(m) == {m[i].k : i \in 1..Len(m)}

Has(r, field) == field \in DOMAIN r

Merge(r, s) == [f \in DOMAIN r \cup DOMAIN s |-> IF f \in DOMAIN s THEN s[f] ELSE r[f]]

(***************************************************************************)
(* JSON values: tagged records.  The text of a string value is the         *)
(* sequence of its characters; property names are atoms.                   *)
(***************************************************************************)
Null == [t |-> "null"]
Str(s) == [t |-> "str", v |-> s]
Num(n) == [t |-> "num", v |-> n]
Bool(b) == [t |-> "bool", v |-> b]
Array(vs) == [t |-> "arr", v |-> vs]
Object(m) == [t |-> "obj", v |-> m]
Throw(e) == [t |-> "throw", v |-> e]

NoHint == ""

(***************************************************************************)
(* The TypeScript syntax tree, as far as the parser looks at it.           *)
(***************************************************************************)
Kw(kind) == [kind |-> kind]
Ref(n) == [kind |-> "TypeReference", typeName |-> n, typeArguments |-> <<>>]
RefA(n, args) == [kind |-> "TypeReference", typeName |-> n, typeArguments |-> args]
ArrayType(t) == [kind |-> "ArrayType", elementType |-> t]
UnionType(ts) == [kind |-> "UnionType", types |-> ts]
IntersectionType(ts) == [kind |-> "IntersectionType", types |-> ts]
Paren(t) == [kind |-> "ParenthesizedType", type |-> t]
StringLit(s) == [kind |-> "LiteralType", literal |-> [kind |-> "StringLiteral", text |-> s]]
NumericLit(s) == [kind |-> "LiteralType", literal |-> [kind |-> "NumericLiteral", text |-> s]]
TrueLit == [kind |-> "LiteralType", literal |-> [kind |-> "TrueKeyword", text |-> "true"]]
FalseLit == [kind |-> "LiteralType", literal |-> [kind |-> "FalseKeyword", text |-> "false"]]
NegativeLit(s) == [kind |-> "LiteralType", literal |-> [kind |-> "PrefixUnaryExpression", text |-> s]]
NullLit == [kind |-> "LiteralType", literal |-> [kind |-> "NullKeyword", text |-> "null"]]
TemplateType(chars) == [kind |-> "TemplateLiteralType", text |-> chars]
TupleType(es) == [kind |-> "TupleType", elements |-> es]
NamedMember(n, t) == [kind |-> "NamedTupleMember", name |-> n, type |-> t]
TypeLiteral(ms) == [kind |-> "TypeLiteral", members |-> ms]
Prop(n, t) == [kind |-> "PropertySignature", name |-> n, questionToken |-> FALSE, type |-> t]
OptProp(n, t) == [kind |-> "PropertySignature", name |-> n, questionToken |-> TRUE, type |-> t]
IndexSig(p, kt, vt) == [kind |-> "IndexSignature", paramName |-> p, paramType |-> kt, type |-> vt]
Interface(n, ms) == [kind |-> "InterfaceDeclaration", name |-> n, members |-> ms]
TypeAlias(n, t) == [kind |-> "TypeAliasDeclaration", name |-> n, type |-> t]

NoNode == [kind |-> "none"]

(***************************************************************************)
(* Strings.  TLA+ strings are atoms, so the characters of every identifier *)
(* the model uses are tabulated; case conversion and substring search work *)
(* on the characters.                                                      *)
(***************************************************************************)
\* BEGIN Spell
Spelling(s) ==
  CASE s = "" -> <<>>
    [] s = "#${Number}/${Missing}" -> <<"#", "$", "{", "N", "u", "m", "b", "e", "r", "}", "/", "$", "{", "M", "i", "s", "s", "i", "n", "g", "}">>
    [] s = "${Category}-${number}-${Size}" -> <<"$", "{", "C", "a", "t", "e", "g", "o", "r", "y", "}", "-", "$", "{", "n", "u", "m", "b", "e", "r", "}", "-", "$", "{", "S", "i", "z", "e", "}">>
    [] s = "${STRING}/${Boolean}" -> <<"$", "{", "S", "T", "R", "I", "N", "G", "}", "/", "$", "{", "B", "o", "o", "l", "e", "a", "n", "}">>
    [] s = "${number}y ${Email}" -> <<"$", "{", "n", "u", "m", "b", "e", "r", "}", "y", " ", "$", "{", "E", "m", "a", "i", "l", "}">>
    [] s = "-1" -> <<"-", "1">>
    [] s = "Age" -> <<"A", "g", "e">>
    [] s = "An index signature parameter type cannot be a literal type or generic type" -> <<"A", "n", " ", "i", "n", "d", "e", "x", " ", "s", "i", "g", "n", "a", "t", "u", "r", "e", " ", "p", "a", "r", "a", "m", "e", "t", "e", "r", " ", "t", "y", "p", "e", " ", "c", "a", "n", "n", "o", "t", " ", "b", "e", " ", "a", " ", "l", "i", "t", "e", "r", "a", "l", " ", "t", "y", "p", "e", " ", "o", "r", " ", "g", "e", "n", "e", "r", "i", "c", " ", "t", "y", "p", "e">>
    [] s = "Array" -> <<"A", "r", "r", "a", "y">>
    [] s = "Awaited" -> <<"A", "w", "a", "i", "t", "e", "d">>
    [] s = "BACKSLASH" -> <<"B", "A", "C", "K", "S", "L", "A", "S", "H">>
    [] s = "Both" -> <<"B", "o", "t", "h">>
    [] s = "Box" -> <<"B", "o", "x">>
    [] s = "CLTH" -> <<"C", "L", "T", "H">>
    [] s = "Cannot find name" -> <<"C", "a", "n", "n", "o", "t", " ", "f", "i", "n", "d", " ", "n", "a", "m", "e">>
    [] s = "Capitalize" -> <<"C", "a", "p", "i", "t", "a", "l", "i", "z", "e">>
    [] s = "Case" -> <<"C", "a", "s", "e">>
    [] s = "Category" -> <<"C", "a", "t", "e", "g", "o", "r", "y">>
    [] s = "Chain" -> <<"C", "h", "a", "i", "n">>
    [] s = "Code" -> <<"C", "o", "d", "e">>
    [] s = "Company" -> <<"C", "o", "m", "p", "a", "n", "y">>
    [] s = "Config" -> <<"C", "o", "n", "f", "i", "g">>
    [] s = "Customer" -> <<"C", "u", "s", "t", "o", "m", "e", "r">>
    [] s = "Data" -> <<"D", "a", "t", "a">>
    [] s = "Date" -> <<"D", "a", "t", "e">>
    [] s = "Declaration or statement expected." -> <<"D", "e", "c", "l", "a", "r", "a", "t", "i", "o", "n", " ", "o", "r", " ", "s", "t", "a", "t", "e", "m", "e", "n", "t", " ", "e", "x", "p", "e", "c", "t", "e", "d", ".">>
    [] s = "ELEC" -> <<"E", "L", "E", "C">>
    [] s = "Egg" -> <<"E", "g", "g">>
    [] s = "Email" -> <<"E", "m", "a", "i", "l">>
    [] s = "Entity" -> <<"E", "n", "t", "i", "t", "y">>
    [] s = "FURN" -> <<"F", "U", "R", "N">>
    [] s = "First" -> <<"F", "i", "r", "s", "t">>
    [] s = "Form" -> <<"F", "o", "r", "m">>
    [] s = "Game" -> <<"G", "a", "m", "e">>
    [] s = "HELLO WORLD" -> <<"H", "E", "L", "L", "O", " ", "W", "O", "R", "L", "D">>
    [] s = "Handle" -> <<"H", "a", "n", "d", "l", "e">>
    [] s = "Hello World" -> <<"H", "e", "l", "l", "o", " ", "W", "o", "r", "l", "d">>
    [] s = "Hello world" -> <<"H", "e", "l", "l", "o", " ", "w", "o", "r", "l", "d">>
    [] s = "Hen" -> <<"H", "e", "n">>
    [] s = "Home" -> <<"H", "o", "m", "e">>
    [] s = "Husband" -> <<"H", "u", "s", "b", "a", "n", "d">>
    [] s = "ID" -> <<"I", "D">>
    [] s = "Keys" -> <<"K", "e", "y", "s">>
    [] s = "LG" -> <<"L", "G">>
    [] s = "Leak" -> <<"L", "e", "a", "k">>
    [] s = "Level" -> <<"L", "e", "v", "e", "l">>
    [] s = "Link" -> <<"L", "i", "n", "k">>
    [] s = "Log" -> <<"L", "o", "g">>
    [] s = "Lowercase" -> <<"L", "o", "w", "e", "r", "c", "a", "s", "e">>
    [] s = "MD" -> <<"M", "D">>
    [] s = "Map" -> <<"M", "a", "p">>
    [] s = "Meeting" -> <<"M", "e", "e", "t", "i", "n", "g">>
    [] s = "Missing" -> <<"M", "i", "s", "s", "i", "n", "g">>
    [] s = "Mix" -> <<"M", "i", "x">>
    [] s = "Mode" -> <<"M", "o", "d", "e">>
    [] s = "NEWLINE" -> <<"N", "E", "W", "L", "I", "N", "E">>
    [] s = "No interfaces found. Please define at least one interface." -> <<"N", "o", " ", "i", "n", "t", "e", "r", "f", "a", "c", "e", "s", " ", "f", "o", "u", "n", "d", ".", " ", "P", "l", "e", "a", "s", "e", " ", "d", "e", "f", "i", "n", "e", " ", "a", "t", " ", "l", "e", "a", "s", "t", " ", "o", "n", "e", " ", "i", "n", "t", "e", "r", "f", "a", "c", "e", ".">>
    [] s = "Node" -> <<"N", "o", "d", "e">>
    [] s = "Omit" -> <<"O", "m", "i", "t">>
    [] s = "Order" -> <<"O", "r", "d", "e", "r">>
    [] s = "Other" -> <<"O", "t", "h", "e", "r">>
    [] s = "PERSON.JOBTITLE-" -> <<"P", "E", "R", "S", "O", "N", ".", "J", "O", "B", "T", "I", "T", "L", "E", "-">>
    [] s = "Partial" -> <<"P", "a", "r", "t", "i", "a", "l">>
    [] s = "Person" -> <<"P", "e", "r", "s", "o", "n">>
    [] s = "Person.firstName-" -> <<"P", "e", "r", "s", "o", "n", ".", "f", "i", "r", "s", "t", "N", "a", "m", "e", "-">>
    [] s = "Person.firstname-" -> <<"P", "e", "r", "s", "o", "n", ".", "f", "i", "r", "s", "t", "n", "a", "m", "e", "-">>
    [] s = "Pick" -> <<"P", "i", "c", "k">>
    [] s = "Ping" -> <<"P", "i", "n", "g">>
    [] s = "Point" -> <<"P", "o", "i", "n", "t">>
    [] s = "Pong" -> <<"P", "o", "n", "g">>
    [] s = "PrefixUnaryExpression" -> <<"P", "r", "e", "f", "i", "x", "U", "n", "a", "r", "y", "E", "x", "p", "r", "e", "s", "s", "i", "o", "n">>
    [] s = "Priority" -> <<"P", "r", "i", "o", "r", "i", "t", "y">>
    [] s = "Product" -> <<"P", "r", "o", "d", "u", "c", "t">>
    [] s = "Promise" -> <<"P", "r", "o", "m", "i", "s", "e">>
    [] s = "QUOTE" -> <<"Q", "U", "O", "T", "E">>
    [] s = "Reading" -> <<"R", "e", "a", "d", "i", "n", "g">>
    [] s = "Readonly" -> <<"R", "e", "a", "d", "o", "n", "l", "y">>
    [] s = "Record" -> <<"R", "e", "c", "o", "r", "d">>
    [] s = "Required" -> <<"R", "e", "q", "u", "i", "r", "e", "d">>
    [] s = "Ring" -> <<"R", "i", "n", "g">>
    [] s = "Roster" -> <<"R", "o", "s", "t", "e", "r">>
    [] s = "SM" -> <<"S", "M">>
    [] s = "Sample" -> <<"S", "a", "m", "p", "l", "e">>
    [] s = "Set" -> <<"S", "e", "t">>
    [] s = "Shape" -> <<"S", "h", "a", "p", "e">>
    [] s = "Size" -> <<"S", "i", "z", "e">>
    [] s = "Task" -> <<"T", "a", "s", "k">>
    [] s = "Tree" -> <<"T", "r", "e", "e">>
    [] s = "TypeError" -> <<"T", "y", "p", "e", "E", "r", "r", "o", "r">>
    [] s = "TypeScript parsing errors:" -> <<"T", "y", "p", "e", "S", "c", "r", "i", "p", "t", " ", "p", "a", "r", "s", "i", "n", "g", " ", "e", "r", "r", "o", "r", "s", ":">>
    [] s = "USERNAME" -> <<"U", "S", "E", "R", "N", "A", "M", "E">>
    [] s = "Uncapitalize" -> <<"U", "n", "c", "a", "p", "i", "t", "a", "l", "i", "z", "e">>
    [] s = "Uppercase" -> <<"U", "p", "p", "e", "r", "c", "a", "s", "e">>
    [] s = "User" -> <<"U", "s", "e", "r">>
    [] s = "Username" -> <<"U", "s", "e", "r", "n", "a", "m", "e">>
    [] s = "View" -> <<"V", "i", "e", "w">>
    [] s = "Wife" -> <<"W", "i", "f", "e">>
    [] s = "Year" -> <<"Y", "e", "a", "r">>
    [] s = "Zed" -> <<"Z", "e", "d">>
    [] s = "[object Object]" -> <<"[", "o", "b", "j", "e", "c", "t", " ", "O", "b", "j", "e", "c", "t", "]">>
    [] s = "__value" -> <<"_", "_", "v", "a", "l", "u", "e">>
    [] s = "address" -> <<"a", "d", "d", "r", "e", "s", "s">>
    [] s = "admin" -> <<"a", "d", "m", "i", "n">>
    [] s = "age" -> <<"a", "g", "e">>
    [] s = "amount" -> <<"a", "m", "o", "u", "n", "t">>
    [] s = "any" -> <<"a", "n", "y">>
    [] s = "array" -> <<"a", "r", "r", "a", "y">>
    [] s = "at" -> <<"a", "t">>
    [] s = "avatar" -> <<"a", "v", "a", "t", "a", "r">>
    [] s = "averageRating" -> <<"a", "v", "e", "r", "a", "g", "e", "R", "a", "t", "i", "n", "g">>
    [] s = "back" -> <<"b", "a", "c", "k">>
    [] s = "bag" -> <<"b", "a", "g">>
    [] s = "bio" -> <<"b", "i", "o">>
    [] s = "boolean" -> <<"b", "o", "o", "l", "e", "a", "n">>
    [] s = "both" -> <<"b", "o", "t", "h">>
    [] s = "byDay" -> <<"b", "y", "D", "a", "y">>
    [] s = "byName" -> <<"b", "y", "N", "a", "m", "e">>
    [] s = "cancel" -> <<"c", "a", "n", "c", "e", "l">>
    [] s = "cap" -> <<"c", "a", "p">>
    [] s = "cb" -> <<"c", "b">>
    [] s = "change" -> <<"c", "h", "a", "n", "g", "e">>
    [] s = "children" -> <<"c", "h", "i", "l", "d", "r", "e", "n">>
    [] s = "city" -> <<"c", "i", "t", "y">>
    [] s = "cityId" -> <<"c", "i", "t", "y", "I", "d">>
    [] s = "code" -> <<"c", "o", "d", "e">>
    [] s = "color" -> <<"c", "o", "l", "o", "r">>
    [] s = "color.human" -> <<"c", "o", "l", "o", "r", ".", "h", "u", "m", "a", "n">>
    [] s = "commerce.department" -> <<"c", "o", "m", "m", "e", "r", "c", "e", ".", "d", "e", "p", "a", "r", "t", "m", "e", "n", "t">>
    [] s = "commerce.price" -> <<"c", "o", "m", "m", "e", "r", "c", "e", ".", "p", "r", "i", "c", "e">>
    [] s = "commerce.productName" -> <<"c", "o", "m", "m", "e", "r", "c", "e", ".", "p", "r", "o", "d", "u", "c", "t", "N", "a", "m", "e">>
    [] s = "company" -> <<"c", "o", "m", "p", "a", "n", "y">>
    [] s = "company.name" -> <<"c", "o", "m", "p", "a", "n", "y", ".", "n", "a", "m", "e">>
    [] s = "content" -> <<"c", "o", "n", "t", "e", "n", "t">>
    [] s = "cost" -> <<"c", "o", "s", "t">>
    [] s = "count" -> <<"c", "o", "u", "n", "t">>
    [] s = "country" -> <<"c", "o", "u", "n", "t", "r", "y">>
    [] s = "currency" -> <<"c", "u", "r", "r", "e", "n", "c", "y">>
    [] s = "customer" -> <<"c", "u", "s", "t", "o", "m", "e", "r">>
    [] s = "date" -> <<"d", "a", "t", "e">>
    [] s = "date-" -> <<"d", "a", "t", "e", "-">>
    [] s = "day" -> <<"d", "a", "y">>
    [] s = "days" -> <<"d", "a", "y", "s">>
    [] s = "debounced" -> <<"d", "e", "b", "o", "u", "n", "c", "e", "d">>
    [] s = "delta" -> <<"d", "e", "l", "t", "a">>
    [] s = "department" -> <<"d", "e", "p", "a", "r", "t", "m", "e", "n", "t">>
    [] s = "description" -> <<"d", "e", "s", "c", "r", "i", "p", "t", "i", "o", "n">>
    [] s = "dict" -> <<"d", "i", "c", "t">>
    [] s = "doing" -> <<"d", "o", "i", "n", "g">>
    [] s = "done" -> <<"d", "o", "n", "e">>
    [] s = "egg" -> <<"e", "g", "g">>
    [] s = "email" -> <<"e", "m", "a", "i", "l">>
    [] s = "emailId" -> <<"e", "m", "a", "i", "l", "I", "d">>
    [] s = "end" -> <<"e", "n", "d">>
    [] s = "enum" -> <<"e", "n", "u", "m">>
    [] s = "enumValues" -> <<"e", "n", "u", "m", "V", "a", "l", "u", "e", "s">>
    [] s = "false" -> <<"f", "a", "l", "s", "e">>
    [] s = "finance.currencyCode" -> <<"f", "i", "n", "a", "n", "c", "e", ".", "c", "u", "r", "r", "e", "n", "c", "y", "C", "o", "d", "e">>
    [] s = "first" -> <<"f", "i", "r", "s", "t">>
    [] s = "firstName" -> <<"f", "i", "r", "s", "t", "N", "a", "m", "e">>
    [] s = "firstname" -> <<"f", "i", "r", "s", "t", "n", "a", "m", "e">>
    [] s = "flags" -> <<"f", "l", "a", "g", "s">>
    [] s = "fractionDigits" -> <<"f", "r", "a", "c", "t", "i", "o", "n", "D", "i", "g", "i", "t", "s">>
    [] s = "fullName" -> <<"f", "u", "l", "l", "N", "a", "m", "e">>
    [] s = "hello World" -> <<"h", "e", "l", "l", "o", " ", "W", "o", "r", "l", "d">>
    [] s = "hello world" -> <<"h", "e", "l", "l", "o", " ", "w", "o", "r", "l", "d">>
    [] s = "hen" -> <<"h", "e", "n">>
    [] s = "hour" -> <<"h", "o", "u", "r">>
    [] s = "husband" -> <<"h", "u", "s", "b", "a", "n", "d">>
    [] s = "id" -> <<"i", "d">>
    [] s = "idx" -> <<"i", "d", "x">>
    [] s = "image" -> <<"i", "m", "a", "g", "e">>
    [] s = "image.avatar" -> <<"i", "m", "a", "g", "e", ".", "a", "v", "a", "t", "a", "r">>
    [] s = "inline" -> <<"i", "n", "l", "i", "n", "e">>
    [] s = "input" -> <<"i", "n", "p", "u", "t">>
    [] s = "internet.email" -> <<"i", "n", "t", "e", "r", "n", "e", "t", ".", "e", "m", "a", "i", "l">>
    [] s = "internet.password" -> <<"i", "n", "t", "e", "r", "n", "e", "t", ".", "p", "a", "s", "s", "w", "o", "r", "d">>
    [] s = "internet.url" -> <<"i", "n", "t", "e", "r", "n", "e", "t", ".", "u", "r", "l">>
    [] s = "internet.username" -> <<"i", "n", "t", "e", "r", "n", "e", "t", ".", "u", "s", "e", "r", "n", "a", "m", "e">>
    [] s = "intersection" -> <<"i", "n", "t", "e", "r", "s", "e", "c", "t", "i", "o", "n">>
    [] s = "intersectionTypes" -> <<"i", "n", "t", "e", "r", "s", "e", "c", "t", "i", "o", "n", "T", "y", "p", "e", "s">>
    [] s = "isOptional" -> <<"i", "s", "O", "p", "t", "i", "o", "n", "a", "l">>
    [] s = "items" -> <<"i", "t", "e", "m", "s">>
    [] s = "job" -> <<"j", "o", "b">>
    [] s = "key" -> <<"k", "e", "y">>
    [] s = "keyHint" -> <<"k", "e", "y", "H", "i", "n", "t">>
    [] s = "keypress" -> <<"k", "e", "y", "p", "r", "e", "s", "s">>
    [] s = "label" -> <<"l", "a", "b", "e", "l">>
    [] s = "last" -> <<"l", "a", "s", "t">>
    [] s = "lastname" -> <<"l", "a", "s", "t", "n", "a", "m", "e">>
    [] s = "lat" -> <<"l", "a", "t">>
    [] s = "later" -> <<"l", "a", "t", "e", "r">>
    [] s = "latitude" -> <<"l", "a", "t", "i", "t", "u", "d", "e">>
    [] s = "leaf" -> <<"l", "e", "a", "f">>
    [] s = "level" -> <<"l", "e", "v", "e", "l">>
    [] s = "list" -> <<"l", "i", "s", "t">>
    [] s = "lit" -> <<"l", "i", "t">>
    [] s = "literal" -> <<"l", "i", "t", "e", "r", "a", "l">>
    [] s = "lng" -> <<"l", "n", "g">>
    [] s = "location.city" -> <<"l", "o", "c", "a", "t", "i", "o", "n", ".", "c", "i", "t", "y">>
    [] s = "location.country" -> <<"l", "o", "c", "a", "t", "i", "o", "n", ".", "c", "o", "u", "n", "t", "r", "y">>
    [] s = "location.state" -> <<"l", "o", "c", "a", "t", "i", "o", "n", ".", "s", "t", "a", "t", "e">>
    [] s = "location.streetAddress" -> <<"l", "o", "c", "a", "t", "i", "o", "n", ".", "s", "t", "r", "e", "e", "t", "A", "d", "d", "r", "e", "s", "s">>
    [] s = "location.zipCode" -> <<"l", "o", "c", "a", "t", "i", "o", "n", ".", "z", "i", "p", "C", "o", "d", "e">>
    [] s = "lon" -> <<"l", "o", "n">>
    [] s = "longitude" -> <<"l", "o", "n", "g", "i", "t", "u", "d", "e">>
    [] s = "lookup" -> <<"l", "o", "o", "k", "u", "p">>
    [] s = "lorem.paragraph" -> <<"l", "o", "r", "e", "m", ".", "p", "a", "r", "a", "g", "r", "a", "p", "h">>
    [] s = "lorem.sentence" -> <<"l", "o", "r", "e", "m", ".", "s", "e", "n", "t", "e", "n", "c", "e">>
    [] s = "lorem.word" -> <<"l", "o", "r", "e", "m", ".", "w", "o", "r", "d">>
    [] s = "low" -> <<"l", "o", "w">>
    [] s = "map" -> <<"m", "a", "p">>
    [] s = "minute" -> <<"m", "i", "n", "u", "t", "e">>
    [] s = "mixed" -> <<"m", "i", "x", "e", "d">>
    [] s = "month" -> <<"m", "o", "n", "t", "h">>
    [] s = "name" -> <<"n", "a", "m", "e">>
    [] s = "named" -> <<"n", "a", "m", "e", "d">>
    [] s = "next" -> <<"n", "e", "x", "t">>
    [] s = "nick" -> <<"n", "i", "c", "k">>
    [] s = "nickname" -> <<"n", "i", "c", "k", "n", "a", "m", "e">>
    [] s = "note" -> <<"n", "o", "t", "e">>
    [] s = "nul" -> <<"n", "u", "l">>
    [] s = "null" -> <<"n", "u", "l", "l">>
    [] s = "number" -> <<"n", "u", "m", "b", "e", "r">>
    [] s = "object" -> <<"o", "b", "j", "e", "c", "t">>
    [] s = "objectProperties" -> <<"o", "b", "j", "e", "c", "t", "P", "r", "o", "p", "e", "r", "t", "i", "e", "s">>
    [] s = "off" -> <<"o", "f", "f">>
    [] s = "om" -> <<"o", "m">>
    [] s = "on" -> <<"o", "n">>
    [] s = "one" -> <<"o", "n", "e">>
    [] s = "orderId" -> <<"o", "r", "d", "e", "r", "I", "d">>
    [] s = "org" -> <<"o", "r", "g">>
    [] s = "organization" -> <<"o", "r", "g", "a", "n", "i", "z", "a", "t", "i", "o", "n">>
    [] s = "over" -> <<"o", "v", "e", "r">>
    [] s = "owner" -> <<"o", "w", "n", "e", "r">>
    [] s = "pa" -> <<"p", "a">>
    [] s = "pageCount" -> <<"p", "a", "g", "e", "C", "o", "u", "n", "t">>
    [] s = "pair" -> <<"p", "a", "i", "r">>
    [] s = "part" -> <<"p", "a", "r", "t">>
    [] s = "password" -> <<"p", "a", "s", "s", "w", "o", "r", "d">>
    [] s = "percent" -> <<"p", "e", "r", "c", "e", "n", "t">>
    [] s = "percentage" -> <<"p", "e", "r", "c", "e", "n", "t", "a", "g", "e">>
    [] s = "person.firstName" -> <<"p", "e", "r", "s", "o", "n", ".", "f", "i", "r", "s", "t", "N", "a", "m", "e">>
    [] s = "person.fullName" -> <<"p", "e", "r", "s", "o", "n", ".", "f", "u", "l", "l", "N", "a", "m", "e">>
    [] s = "person.jobTitle" -> <<"p", "e", "r", "s", "o", "n", ".", "j", "o", "b", "T", "i", "t", "l", "e">>
    [] s = "person.lastName" -> <<"p", "e", "r", "s", "o", "n", ".", "l", "a", "s", "t", "N", "a", "m", "e">>
    [] s = "phone" -> <<"p", "h", "o", "n", "e">>
    [] s = "phone.number" -> <<"p", "h", "o", "n", "e", ".", "n", "u", "m", "b", "e", "r">>
    [] s = "pk" -> <<"p", "k">>
    [] s = "position" -> <<"p", "o", "s", "i", "t", "i", "o", "n">>
    [] s = "postal" -> <<"p", "o", "s", "t", "a", "l">>
    [] s = "price" -> <<"p", "r", "i", "c", "e">>
    [] s = "prim" -> <<"p", "r", "i", "m">>
    [] s = "priority" -> <<"p", "r", "i", "o", "r", "i", "t", "y">>
    [] s = "product" -> <<"p", "r", "o", "d", "u", "c", "t">>
    [] s = "productId" -> <<"p", "r", "o", "d", "u", "c", "t", "I", "d">>
    [] s = "properties" -> <<"p", "r", "o", "p", "e", "r", "t", "i", "e", "s">>
    [] s = "province" -> <<"p", "r", "o", "v", "i", "n", "c", "e">>
    [] s = "quantity" -> <<"q", "u", "a", "n", "t", "i", "t", "y">>
    [] s = "rate" -> <<"r", "a", "t", "e">>
    [] s = "rating" -> <<"r", "a", "t", "i", "n", "g">>
    [] s = "rec" -> <<"r", "e", "c">>
    [] s = "req" -> <<"r", "e", "q">>
    [] s = "ro" -> <<"r", "o">>
    [] s = "role" -> <<"r", "o", "l", "e">>
    [] s = "rq" -> <<"r", "q">>
    [] s = "run" -> <<"r", "u", "n">>
    [] s = "second" -> <<"s", "e", "c", "o", "n", "d">>
    [] s = "seen" -> <<"s", "e", "e", "n">>
    [] s = "set" -> <<"s", "e", "t">>
    [] s = "size" -> <<"s", "i", "z", "e">>
    [] s = "sku" -> <<"s", "k", "u">>
    [] s = "solo" -> <<"s", "o", "l", "o">>
    [] s = "staff" -> <<"s", "t", "a", "f", "f">>
    [] s = "state" -> <<"s", "t", "a", "t", "e">>
    [] s = "status" -> <<"s", "t", "a", "t", "u", "s">>
    [] s = "storageYear" -> <<"s", "t", "o", "r", "a", "g", "e", "Y", "e", "a", "r">>
    [] s = "street" -> <<"s", "t", "r", "e", "e", "t">>
    [] s = "string" -> <<"s", "t", "r", "i", "n", "g">>
    [] s = "string.uuid" -> <<"s", "t", "r", "i", "n", "g", ".", "u", "u", "i", "d">>
    [] s = "tags" -> <<"t", "a", "g", "s">>
    [] s = "template" -> <<"t", "e", "m", "p", "l", "a", "t", "e">>
    [] s = "templatePattern" -> <<"t", "e", "m", "p", "l", "a", "t", "e", "P", "a", "t", "t", "e", "r", "n">>
    [] s = "text" -> <<"t", "e", "x", "t">>
    [] s = "title" -> <<"t", "i", "t", "l", "e">>
    [] s = "todo" -> <<"t", "o", "d", "o">>
    [] s = "too complex to represent" -> <<"t", "o", "o", " ", "c", "o", "m", "p", "l", "e", "x", " ", "t", "o", " ", "r", "e", "p", "r", "e", "s", "e", "n", "t">>
    [] s = "total" -> <<"t", "o", "t", "a", "l">>
    [] s = "true" -> <<"t", "r", "u", "e">>
    [] s = "tuple" -> <<"t", "u", "p", "l", "e">>
    [] s = "tupleElements" -> <<"t", "u", "p", "l", "e", "E", "l", "e", "m", "e", "n", "t", "s">>
    [] s = "typeHint" -> <<"t", "y", "p", "e", "H", "i", "n", "t">>
    [] s = "unc" -> <<"u", "n", "c">>
    [] s = "union" -> <<"u", "n", "i", "o", "n">>
    [] s = "unionTypes" -> <<"u", "n", "i", "o", "n", "T", "y", "p", "e", "s">>
    [] s = "unknown" -> <<"u", "n", "k", "n", "o", "w", "n">>
    [] s = "up" -> <<"u", "p">>
    [] s = "url" -> <<"u", "r", "l">>
    [] s = "user" -> <<"u", "s", "e", "r">>
    [] s = "userId" -> <<"u", "s", "e", "r", "I", "d">>
    [] s = "userName" -> <<"u", "s", "e", "r", "N", "a", "m", "e">>
    [] s = "username" -> <<"u", "s", "e", "r", "n", "a", "m", "e">>
    [] s = "utility" -> <<"u", "t", "i", "l", "i", "t", "y">>
    [] s = "utilityTypeArgs" -> <<"u", "t", "i", "l", "i", "t", "y", "T", "y", "p", "e", "A", "r", "g", "s">>
    [] s = "uuid" -> <<"u", "u", "i", "d">>
    [] s = "value" -> <<"v", "a", "l", "u", "e">>
    [] s = "videoUrl" -> <<"v", "i", "d", "e", "o", "U", "r", "l">>
    [] s = "website" -> <<"w", "e", "b", "s", "i", "t", "e">>
    [] s = "when" -> <<"w", "h", "e", "n">>
    [] s = "width" -> <<"w", "i", "d", "t", "h">>
    [] s = "wife" -> <<"w", "i", "f", "e">>
    [] s = "window" -> <<"w", "i", "n", "d", "o", "w">>
    [] s = "year" -> <<"y", "e", "a", "r">>
    [] s = "zip" -> <<"z", "i", "p">>
    [] s = "zipcode" -> <<"z", "i", "p", "c", "o", "d", "e">>
\* END Spell

Spell(s) == IF Len(s) = 1 THEN <<s>> ELSE Spelling(s)

RECURSIVE Join(_)
Join(chars) == IF chars = <<>> THEN "" ELSE Head(chars) \o Join(Tail(chars))

Upper == <<"A", "B", "C", "D", "E", "F", "G", "H", "I", "J", "K", "L", "M",
           "N", "O", "P", "Q", "R", "S", "T", "U", "V", "W", "X", "Y", "Z">>
Lower == <<"a", "b", "c", "d", "e", "f", "g", "h", "i", "j", "k", "l", "m",
           "n", "o", "p", "q", "r", "s", "t", "u", "v", "w", "x", "y", "z">>
Digits == <<"0", "1", "2", "3", "4", "5", "6", "7", "8", "9">>

LowerChar(c) ==
  IF \E i \in 1..26 : Upper[i] = c THEN Lower[CHOOSE i \in 1..26 : Upper[i] = c] ELSE c

toLowerCaseChars(chars) == [i \in 1..Len(chars) |-> LowerChar(chars[i])]

toLowerCase(s) == Join(toLowerCaseChars(Spell(s)))

\* String.prototype.includes on characters
includes(chars, term) ==
  \E i \in 0..(Len(chars) - Len(term)) : \A j \in 1..Len(term) : chars[i + j] = term[j]

DigitValue(c) == (CHOOSE i \in 1..10 : Digits[i] = c) - 1

\* Number(text) for a decimal numeric literal
RECURSIVE NumberOfChars(_)
NumberOfChars(chars) ==
  IF chars = <<>> THEN 0
  ELSE (10 * NumberOfChars(SubSeq(chars, 1, Len(chars) - 1))) + DigitValue(chars[Len(chars)])

Number(text) == NumberOfChars(Spell(text))

\* the decimal digits of a natural number
RECURSIVE DigitsOf(_)
DigitsOf(n) == IF n < 10 THEN <<Digits[n + 1]>> ELSE DigitsOf(n \div 10) \o <<Digits[(n % 10) + 1]>>

(***************************************************************************)
(* lib/parser.ts                                                           *)
(***************************************************************************)
RangeError == [name |-> "RangeError", kind |-> "throw"]

Thrown(typeInfo) == typeInfo.kind = "throw"

AnyThrown(typeInfos) == \E i \in 1..Len(typeInfos) : Thrown(typeInfos[i])

utilityTypes == {"Partial", "Required", "Pick", "Omit", "Readonly", "Record", "Lowercase",
                 "Uppercase", "Capitalize", "Uncapitalize", "Promise", "Awaited"}

\* first pass: the alias table, a later declaration of a name replacing an earlier one
RECURSIVE collectTypeAliases(_, _)
collectTypeAliases(statements, n) ==
  IF n = 0 THEN <<>>
  ELSE LET prev == collectTypeAliases(statements, n - 1)
           node == statements[n]
       IN IF node.kind = "TypeAliasDeclaration" THEN Put(prev, node.name, node.type) ELSE prev

RECURSIVE getTypeInfo(_, _, _), getTypeInfoWithoutResolving(_, _, _), propertySignatures(_, _, _, _)

\* a type argument: a type reference keeps its name and is not looked up
resolvingArguments(typeNode, typeAliases, d) == getTypeInfo(typeNode, typeAliases, d + 1)

getTypeInfoWithoutResolving(typeNode, typeAliases, d) ==
  IF d > MaxStack THEN RangeError
  ELSE IF typeNode.kind = "TypeReference"
  THEN [name |-> typeNode.typeName, kind |-> "unknown"]
  ELSE getTypeInfo(typeNode, typeAliases, d + 1)

\* the property signatures among the first n members, as [thrown, props]
propertySignatures(members, n, typeAliases, d) ==
  IF n = 0 THEN [thrown |-> FALSE, props |-> <<>>]
  ELSE LET prev == propertySignatures(members, n - 1, typeAliases, d)
           member == members[n]
       IN IF prev.thrown \/ member.kind # "PropertySignature" THEN prev
          ELSE LET typeHint == IF member.type.kind = "TypeReference"
                               THEN member.type.typeName ELSE NoHint
                   typeInfo == getTypeInfo(member.type, typeAliases, d + 1)
                   hint == IF typeHint # NoHint THEN typeHint
                           ELSE IF Has(typeInfo, "typeHint") THEN typeInfo.typeHint ELSE NoHint
               IN IF Thrown(typeInfo) THEN [thrown |-> TRUE, props |-> <<>>]
                  ELSE [thrown |-> FALSE,
                        props |-> Put(prev.props, member.name,
                                      Merge(typeInfo, [isOptional |-> member.questionToken,
                                                       typeHint |-> hint]))]

literalValueOf(literal) ==
  CASE literal.kind = "StringLiteral" -> Str(Spell(literal.text))
    [] literal.kind = "NumericLiteral" -> Num(Number(literal.text))
    [] literal.kind = "TrueKeyword" -> Bool(TRUE)
    [] literal.kind = "FalseKeyword" -> Bool(FALSE)
    [] OTHER -> Str(Spell(literal.text))

\* the last index signature among the members, or NoNode
lastIndexSignature(members) ==
  LET idx == {i \in 1..Len(members) : members[i].kind = "IndexSignature"}
  IN IF idx = {} THEN NoNode ELSE members[CHOOSE i \in idx : \A j \in idx : j <= i]

\* types.map(t => t.literalValue): the literal values of a union of literals, in source order
enumValues(types) == [i \in 1..Len(types) |-> types[i].literalValue]

getTypeInfo(typeNode, typeAliases, d) ==
  IF d > MaxStack THEN RangeError
  ELSE CASE typeNode.kind = "ParenthesizedType" ->
         getTypeInfo(typeNode.type, typeAliases, d + 1)
    [] typeNode.kind = "ArrayType" ->
         LET elementType == getTypeInfo(typeNode.elementType, typeAliases, d + 1)
         IN IF Thrown(elementType) THEN RangeError
            ELSE [name |-> "array", kind |-> "array", isArray |-> TRUE,
                  arrayElementType |-> elementType]
    [] typeNode.kind = "UnionType" ->
         LET types == [i \in 1..Len(typeNode.types) |->
                         getTypeInfo(typeNode.types[i], typeAliases, d + 1)]
         IN IF AnyThrown(types) THEN RangeError
            ELSE IF \A i \in 1..Len(types) : types[i].kind = "literal"
            THEN [name |-> "enum", kind |-> "enum",
                  enumValues |-> enumValues(types)]
            ELSE [name |-> "union", kind |-> "union", unionTypes |-> types]
    [] typeNode.kind = "IntersectionType" ->
         LET types == [i \in 1..Len(typeNode.types) |->
                         getTypeInfo(typeNode.types[i], typeAliases, d + 1)]
         IN IF AnyThrown(types) THEN RangeError
            ELSE [name |-> "intersection", kind |-> "intersection", intersectionTypes |-> types]
    [] typeNode.kind = "LiteralType" ->
         [name |-> "literal", kind |-> "literal", literalValue |-> literalValueOf(typeNode.literal)]
    [] typeNode.kind = "TemplateLiteralType" ->
         [name |-> "template", kind |-> "template", templatePattern |-> typeNode.text]
    [] typeNode.kind = "TupleType" ->
         LET elements == [i \in 1..Len(typeNode.elements) |->
               LET element == typeNode.elements[i]
               IN IF element.kind = "NamedTupleMember"
                  THEN [type |-> getTypeInfoWithoutResolving(element.type, typeAliases, d + 1),
                        name |-> element.name]
                  ELSE [type |-> getTypeInfoWithoutResolving(element, typeAliases, d + 1)]]
         IN IF \E i \in 1..Len(elements) : Thrown(elements[i].type) THEN RangeError
            ELSE [name |-> "tuple", kind |-> "tuple", tupleElements |-> elements]
    [] typeNode.kind = "TypeReference" ->
         LET typeName == typeNode.typeName
             args == typeNode.typeArguments
         IN CASE typeName = "Date" -> [name |-> "Date", kind |-> "date"]
              [] typeName = "Array" ->
                   IF Len(args) = 0 THEN [name |-> "array", kind |-> "array", isArray |-> TRUE]
                   ELSE LET elementType == getTypeInfo(args[1], typeAliases, d + 1)
                        IN IF Thrown(elementType) THEN RangeError
                           ELSE [name |-> "array", kind |-> "array", isArray |-> TRUE,
                                 arrayElementType |-> elementType]
              [] typeName = "Map" ->
                   LET keyed == IF Len(args) >= 1
                                THEN [mapKeyType |-> getTypeInfoWithoutResolving(args[1], typeAliases, d + 1)]
                                ELSE [name |-> "Map"]
                       valued == IF Len(args) >= 2
                                 THEN [mapValueType |-> getTypeInfoWithoutResolving(args[2], typeAliases, d + 1)]
                                 ELSE [name |-> "Map"]
                   IN IF \/ Has(keyed, "mapKeyType") /\ Thrown(keyed.mapKeyType)
                         \/ Has(valued, "mapValueType") /\ Thrown(valued.mapValueType)
                      THEN RangeError
                      ELSE Merge(Merge([name |-> "Map", kind |-> "map"], keyed), valued)
              [] typeName = "Set" ->
                   IF Len(args) = 0 THEN [name |-> "Set", kind |-> "set"]
                   ELSE LET elementType == getTypeInfoWithoutResolving(args[1], typeAliases, d + 1)
                        IN IF Thrown(elementType) THEN RangeError
                           ELSE [name |-> "Set", kind |-> "set", setElementType |-> elementType]
              [] typeName \in utilityTypes ->
                   LET typeArgs == [i \in 1..Len(args) |->
                                      getTypeInfoWithoutResolving(args[i], typeAliases, d + 1)]
                   IN IF AnyThrown(typeArgs) THEN RangeError
                      ELSE [name |-> typeName, kind |-> "utility", utilityType |-> typeName,
                            utilityTypeArgs |-> typeArgs]
              [] HasKey(typeAliases, typeName) ->
                   getTypeInfo(Get(typeAliases, typeName), typeAliases, d + 1)
              [] OTHER -> [name |-> typeName, kind |-> "unknown"]
    [] typeNode.kind = "TypeLiteral" ->
         LET ps == propertySignatures(typeNode.members, Len(typeNode.members), typeAliases, d)
             sig == lastIndexSignature(typeNode.members)
             keyType == IF sig.kind = "none" \/ sig.paramType.kind = "none" THEN NoNode
                        ELSE getTypeInfoWithoutResolving(sig.paramType, typeAliases, d + 1)
             valueType == IF sig.kind = "none" \/ sig.type.kind = "none" THEN NoNode
                          ELSE getTypeInfoWithoutResolving(sig.type, typeAliases, d + 1)
             keyTypeArg == IF keyType.kind = "none" THEN [name |-> "string", kind |-> "string"]
                           ELSE keyType
         IN IF ps.thrown \/ Thrown(keyType) \/ Thrown(valueType) THEN RangeError
            ELSE IF sig.kind # "none" /\ Len(ps.props) = 0
            THEN [name |-> "Record", kind |-> "utility", utilityType |-> "Record",
                  utilityTypeArgs |->
                    << IF sig.paramName # NoHint
                       THEN Merge(keyTypeArg, [keyHint |-> sig.paramName]) ELSE keyTypeArg,
                       IF valueType.kind = "none" THEN [name |-> "unknown", kind |-> "unknown"]
                       ELSE valueType >>]
            ELSE [name |-> "object", kind |-> "object", objectProperties |-> ps.props]
    [] typeNode.kind = "StringKeyword" -> [name |-> "string", kind |-> "string"]
    [] typeNode.kind = "NumberKeyword" -> [name |-> "number", kind |-> "number"]
    [] typeNode.kind = "BooleanKeyword" -> [name |-> "boolean", kind |-> "boolean"]
    [] typeNode.kind = "AnyKeyword" -> [name |-> "any", kind |-> "unknown"]
    [] OTHER -> [name |-> toLowerCase(typeNode.text), kind |-> "unknown"]

\* second pass: the declarations pushed for the first n statements, as [thrown, interfaces]
RECURSIVE visit(_, _, _)
visit(statements, n, typeAliases) ==
  IF n = 0 THEN [thrown |-> FALSE, interfaces |-> <<>>]
  ELSE LET prev == visit(statements, n - 1, typeAliases)
           node == statements[n]
           members == IF node.kind = "InterfaceDeclaration" THEN node.members
                      ELSE IF node.type.kind = "TypeLiteral" THEN node.type.members ELSE <<>>
           isEntity == \/ node.kind = "InterfaceDeclaration"
                       \/ node.kind = "TypeAliasDeclaration" /\ node.type.kind = "TypeLiteral"
           ps == IF isEntity THEN propertySignatures(members, Len(members), typeAliases, 1)
                 ELSE [thrown |-> FALSE, props |-> <<>>]
           typeInfo == IF node.kind = "TypeAliasDeclaration"
                       THEN getTypeInfo(node.type, typeAliases, 1) ELSE NoNode
           entity == IF isEntity THEN <<[name |-> node.name, properties |-> ps.props]>> ELSE <<>>
           alias == IF node.kind = "TypeAliasDeclaration"
                    THEN <<[name |-> node.name, properties |-> <<[k |-> "__value", v |-> typeInfo]>>]>>
                    ELSE <<>>
       IN IF prev.thrown THEN prev
          ELSE IF ps.thrown \/ Thrown(typeInfo) THEN [thrown |-> TRUE, interfaces |-> <<>>]
          ELSE [thrown |-> FALSE, interfaces |-> prev.interfaces \o entity \o alias]

\* the declaration list, or the RangeError the engine raises when the stack runs out
parseTypeScriptInterface(code) ==
  LET typeAliases == collectTypeAliases(code, Len(code))
      visited == visit(code, Len(code), typeAliases)
  IN visited

(***************************************************************************)
(* faker: the seeded random stream and the reference clock.  A faker state *)
(* is [s, now]; every draw advances s.                                     *)
(***************************************************************************)
fakerSeed(seed, now) == [s |-> 1 + (seed % 30), now |-> now]

NextRng(fk) == [fk EXCEPT !.s = (3 * fk.s) % 31]

\* faker.number.float(): [0, 1) in thirtieths
fakerNumberFloat(fk) == [v |-> NextRng(fk).s - 1, r |-> NextRng(fk)]

\* faker.number.int({ min, max })
numberInt(fk, min, max) == [v |-> min + ((NextRng(fk).s - 1) % (max - min + 1)), r |-> NextRng(fk)]

\* faker.helpers.arrayElement(values)
arrayElement(fk, values) == [v |-> values[1 + ((NextRng(fk).s - 1) % Len(values))], r |-> NextRng(fk)]

\* a faker text generator: the strategy's name and one of its values
fakerText(fk, strategy) ==
  [v |-> Str(Spell(strategy) \o <<"-">> \o DigitsOf(NextRng(fk).s - 1)), r |-> NextRng(fk)]

\* faker.number.float({ min, max, fractionDigits }) and the coordinates
Decimal(units, digits) == [t |-> "num", v |-> units, fractionDigits |-> digits]

numberFloat(fk, min, max, digits) ==
  [v |-> Decimal(min + ((NextRng(fk).s - 1) % (max - min + 1)), digits), r |-> NextRng(fk)]

\* faker.date.recent().toISOString(): within the day before the reference clock
dateRecent(fk) ==
  [v |-> Str(Spell("date-") \o DigitsOf((fk.now * 30) + 29 - (NextRng(fk).s - 1))),
   r |-> NextRng(fk)]

Pow10(k) == IF k = 0 THEN 1 ELSE IF k = 1 THEN 10 ELSE IF k = 2 THEN 100 ELSE IF k = 3 THEN 1000 ELSE 10000

\* String(value), as characters
RECURSIVE String(_)
String(value) ==
  CASE value.t = "str" -> value.v
    [] value.t = "num" ->
         LET digits == IF Has(value, "fractionDigits") THEN value.fractionDigits ELSE 0
             abs == IF value.v < 0 THEN 0 - value.v ELSE value.v
             sign == IF value.v < 0 THEN <<"-">> ELSE <<>>
             fraction == abs % Pow10(digits)
             padded == [i \in 1..(digits - Len(DigitsOf(fraction))) |-> "0"] \o DigitsOf(fraction)
             trimmed == SubSeq(padded, 1,
                               CHOOSE n \in 1..Len(padded) :
                                 padded[n] # "0" /\ \A j \in (n + 1)..Len(padded) : padded[j] = "0")
         IN IF fraction = 0 THEN sign \o DigitsOf(abs \div Pow10(digits))
            ELSE sign \o DigitsOf(abs \div Pow10(digits)) \o <<".">> \o trimmed
    [] value.t = "bool" -> IF value.v THEN Spell("true") ELSE Spell("false")
    [] value.t = "null" -> Spell("null")
    [] value.t = "obj" -> Spell("[object Object]")
    [] value.t = "arr" ->
         IF Len(value.v) = 0 THEN <<>>
         ELSE LET head == IF value.v[1].t = "null" THEN <<>> ELSE String(value.v[1])
              IN IF Len(value.v) = 1 THEN head
                 ELSE head \o <<",">> \o String(Array(Tail(value.v)))

(***************************************************************************)
(* The mock generator: field-name heuristics for primitive leaves.         *)
(***************************************************************************)
withoutUuid ==
  << [terms |-> <<"name">>, unless |-> <<"username">>, strategy |-> "person.fullName"],
     [terms |-> <<"currency">>, unless |-> <<>>, strategy |-> "finance.currencyCode"] >>

stringStrategies ==
  << [terms |-> <<"email">>, unless |-> <<>>, strategy |-> "internet.email"],
     [terms |-> <<"username", "user">>, unless |-> <<>>, strategy |-> "internet.username"],
     [terms |-> <<"password">>, unless |-> <<>>, strategy |-> "internet.password"],
     [terms |-> <<"phone">>, unless |-> <<>>, strategy |-> "phone.number"],
     [terms |-> <<"url", "website">>, unless |-> <<>>, strategy |-> "internet.url"],
     [terms |-> <<"avatar", "image">>, unless |-> <<>>, strategy |-> "image.avatar"],
     [terms |-> <<"color">>, unless |-> <<>>, strategy |-> "color.human"],
     [terms |-> <<"country">>, unless |-> <<>>, strategy |-> "location.country"],
     [terms |-> <<"city">>, unless |-> <<>>, strategy |-> "location.city"],
     [terms |-> <<"street", "address">>, unless |-> <<>>, strategy |-> "location.streetAddress"],
     [terms |-> <<"zipcode", "zip", "postal">>, unless |-> <<>>, strategy |-> "location.zipCode"],
     [terms |-> <<"state", "province">>, unless |-> <<>>, strategy |-> "location.state"],
     [terms |-> <<"company", "organization", "org">>, unless |-> <<>>, strategy |-> "company.name"],
     [terms |-> <<"job", "title", "position">>, unless |-> <<>>, strategy |-> "person.jobTitle"],
     [terms |-> <<"description", "bio">>, unless |-> <<>>, strategy |-> "lorem.paragraph"],
     [terms |-> <<"firstname", "first">>, unless |-> <<>>, strategy |-> "person.firstName"],
     [terms |-> <<"lastname", "last">>, unless |-> <<>>, strategy |-> "person.lastName"],
     [terms |-> <<"name">>, unless |-> <<"username">>, strategy |-> "person.fullName"],
     [terms |-> <<"uuid", "id">>, unless |-> <<>>, strategy |-> "string.uuid"],
     [terms |-> <<"currency">>, unless |-> <<>>, strategy |-> "finance.currencyCode"],
     [terms |-> <<"price", "amount">>, unless |-> <<>>, strategy |-> "commerce.price"],
     [terms |-> <<"product">>, unless |-> <<>>, strategy |-> "commerce.productName"],
     [terms |-> <<"department">>, unless |-> <<>>, strategy |-> "commerce.department"],
     [terms |-> <<"text", "content">>, unless |-> <<>>, strategy |-> "lorem.sentence"] >>

\* does the table entry apply to the (lowercased) field name
entryMatches(entry, fieldName) ==
  /\ \E i \in 1..Len(entry.terms) : includes(fieldName, Spell(entry.terms[i]))
  /\ \A i \in 1..Len(entry.unless) : ~includes(fieldName, Spell(entry.unless[i]))

lastMatch(table, fieldName) ==
  LET hits == {i \in 1..Len(table) : entryMatches(table[i], fieldName)}
  IN IF hits = {} THEN 0 ELSE CHOOSE i \in hits : \A j \in hits : j <= i

firstMatch(table, fieldName) ==
  LET hits == {i \in 1..Len(table) : entryMatches(table[i], fieldName)}
  IN IF hits = {} THEN 0 ELSE CHOOSE i \in hits : \A j \in hits : i <= j

stringStrategy(fieldName) ==
  LET i == firstMatch(stringStrategies, fieldName)
  IN IF i = 0 THEN "lorem.word" ELSE stringStrategies[i].strategy

generateStringValue(fieldName, fk) == fakerText(fk, stringStrategy(fieldName))

yearFirst ==
  << [terms |-> <<"year">>, unless |-> <<>>, min |-> 1900, max |-> 2024, digits |-> 0],
     [terms |-> <<"age">>, unless |-> <<>>, min |-> 18, max |-> 80, digits |-> 0] >>

numberStrategies ==
  << [terms |-> <<"age">>, unless |-> <<>>, min |-> 18, max |-> 80, digits |-> 0],
     [terms |-> <<"year">>, unless |-> <<>>, min |-> 1900, max |-> 2024, digits |-> 0],
     [terms |-> <<"month">>, unless |-> <<>>, min |-> 1, max |-> 12, digits |-> 0],
     [terms |-> <<"day">>, unless |-> <<>>, min |-> 1, max |-> 31, digits |-> 0],
     [terms |-> <<"hour">>, unless |-> <<>>, min |-> 0, max |-> 23, digits |-> 0],
     [terms |-> <<"minute", "second">>, unless |-> <<>>, min |-> 0, max |-> 59, digits |-> 0],
     [terms |-> <<"price", "amount", "cost">>, unless |-> <<>>, min |-> 0, max |-> 100000, digits |-> 2],
     [terms |-> <<"quantity", "count">>, unless |-> <<>>, min |-> 1, max |-> 100, digits |-> 0],
     [terms |-> <<"percent", "rate">>, unless |-> <<>>, min |-> 0, max |-> 100, digits |-> 0],
     [terms |-> <<"rating">>, unless |-> <<>>, min |-> 0, max |-> 50, digits |-> 1],
     [terms |-> <<"latitude", "lat">>, unless |-> <<>>, min |-> 0 - 900000, max |-> 900000, digits |-> 4],
     [terms |-> <<"longitude", "lng", "lon">>, unless |-> <<>>, min |-> 0 - 1800000, max |-> 1800000, digits |-> 4] >>

generateNumberValue(fieldName, fk) ==
  LET i == firstMatch(numberStrategies, fieldName)
  IN IF i = 0 THEN LET n == numberInt(fk, 1, 1000) IN [v |-> Num(n.v), r |-> n.r]
     ELSE IF numberStrategies[i].digits = 0
     THEN LET n == numberInt(fk, numberStrategies[i].min, numberStrategies[i].max)
          IN [v |-> Num(n.v), r |-> n.r]
     ELSE numberFloat(fk, numberStrategies[i].min, numberStrategies[i].max, numberStrategies[i].digits)

unknownRaises(fk) == [v |-> Throw("TypeError"), r |-> fk]

\* the recursion of generateValue and generateObjectFromInterface has no depth limit and no
\* visited set: when the call stack runs out the engine throws RangeError
depthLimit(fk) == [v |-> Null, r |-> fk]

stackExhausted(fk) == [v |-> Throw("RangeError"), r |-> fk]

\* case 'unknown' and default: a warning is logged and null returned
unknownValue(fk) == [v |-> Null, r |-> fk]

\* typeInfo.typeHint || fieldName: the type hint, when there is one, goes before the field name
fieldNameFirst(fieldName, typeInfo) == fieldName

hint(fieldName, typeInfo) ==
  IF Has(typeInfo, "typeHint") /\ typeInfo.typeHint # NoHint THEN typeInfo.typeHint ELSE fieldName

generatePrimitiveValue(fieldName, typeInfo, fk) ==
  LET lowerFieldName == toLowerCaseChars(Spell(hint(fieldName, typeInfo)))
  IN CASE typeInfo.kind = "string" -> generateStringValue(lowerFieldName, fk)
       [] typeInfo.kind = "number" -> generateNumberValue(lowerFieldName, fk)
       [] typeInfo.kind = "boolean" ->
            LET b == numberInt(fk, 0, 1) IN [v |-> Bool(b.v = 1), r |-> b.r]
       [] typeInfo.kind = "date" -> dateRecent(fk)
       [] typeInfo.kind = "unknown" -> unknownValue(fk)
       [] OTHER -> unknownValue(fk)

(***************************************************************************)
(* The mock generator: root selection and the recursive value generator.   *)
(* Every generator returns [v, r]: the value (or the exception thrown) and *)
(* the faker state after its draws.                                        *)
(***************************************************************************)
Failed(g) == g.v.t = "throw"

find(allInterfaces, name) ==
  LET hits == {i \in 1..Len(allInterfaces) : allInterfaces[i].name = name}
  IN IF hits = {} THEN 0 ELSE CHOOSE i \in hits : \A j \in hits : i <= j

RECURSIVE collectReferences(_)
collectReferences(typeInfo) ==
  (IF typeInfo.kind = "unknown" /\ typeInfo.name # "" THEN {typeInfo.name} ELSE {})
  \cup (IF typeInfo.kind = "array" /\ Has(typeInfo, "arrayElementType")
        THEN collectReferences(typeInfo.arrayElementType) ELSE {})
  \cup (IF typeInfo.kind = "object" /\ Has(typeInfo, "objectProperties")
        THEN UNION {collectReferences(typeInfo.objectProperties[i].v) :
                      i \in 1..Len(typeInfo.objectProperties)}
        ELSE {})
  \cup (IF typeInfo.kind = "union" /\ Has(typeInfo, "unionTypes")
        THEN UNION {collectReferences(typeInfo.unionTypes[i]) : i \in 1..Len(typeInfo.unionTypes)}
        ELSE {})

referencedNames(interfaces) ==
  UNION {UNION {collectReferences(interfaces[i].properties[j].v) :
                  j \in 1..Len(interfaces[i].properties)} : i \in 1..Len(interfaces)}

findRootInterface(interfaces) ==
  LET referenced == referencedNames(interfaces)
      actualInterfaces == SelectSeq(interfaces, LAMBDA iface : ~HasKey(iface.properties, "__value"))
      rootInterfaces == SelectSeq(actualInterfaces, LAMBDA iface : iface.name \notin referenced)
  IN IF Len(rootInterfaces) > 0 THEN rootInterfaces[1]
     ELSE IF Len(actualInterfaces) > 0 THEN actualInterfaces[1]
     ELSE NoNode

IsWord(c) ==
  \/ c = "_"
  \/ \E i \in 1..26 : Upper[i] = c \/ Lower[i] = c
  \/ \E i \in 1..10 : Digits[i] = c

\* /\$\{(\w+)\}/ anchored at position i: the position of the closing brace, or 0
placeholderEnd(chars, i) ==
  IF /\ chars[i] = "$"
     /\ i + 3 <= Len(chars)
     /\ chars[i + 1] = "{"
     /\ \E j \in (i + 3)..Len(chars) :
          chars[j] = "}" /\ \A k \in (i + 2)..(j - 1) : IsWord(chars[k])
  THEN CHOOSE j \in (i + 3)..Len(chars) :
         chars[j] = "}" /\ \A k \in (i + 2)..(j - 1) : IsWord(chars[k])
  ELSE 0

\* the backquote character (written as a token: the lexer reserves the character)
Backquote == "BACKQUOTE"

keepBackticks(chars) == chars

\* pattern.replace(backquote, '') over the whole pattern
removeBackticks(chars) == SelectSeq(chars, LAMBDA c : c # Backquote)

UpperChar(c) ==
  IF \E i \in 1..26 : Lower[i] = c THEN Upper[CHOOSE i \in 1..26 : Lower[i] = c] ELSE c

toUpperCaseChars(chars) == [i \in 1..Len(chars) |-> UpperChar(chars[i])]

\* the four string utilities applied to the text strValue
caseTransform(utilityType, strValue) ==
  LET chars == strValue
      rest == IF Len(chars) = 0 THEN <<>> ELSE Tail(chars)
      first == IF Len(chars) = 0 THEN <<>> ELSE <<Head(chars)>>
  IN CASE utilityType = "Lowercase" -> toLowerCaseChars(chars)
       [] utilityType = "Uppercase" -> toUpperCaseChars(chars)
       [] utilityType = "Capitalize" -> toUpperCaseChars(first) \o toLowerCaseChars(rest)
       [] utilityType = "Uncapitalize" -> toLowerCaseChars(first) \o rest

outerHint(element, fieldName) == fieldName

\* element.name || fieldName
elementHint(element, fieldName) ==
  IF Has(element, "name") /\ element.name # "" THEN element.name ELSE fieldName

manySlots(fk) == numberInt(fk, 6, 9)

\* the number of key/value slots of a Record
recordSize(fk) == numberInt(fk, 2, 5)

RECURSIVE generateValue(_, _, _, _, _), generateObjectFromInterface(_, _, _, _),
          propertiesLoop(_, _, _, _, _), elementsLoop(_, _, _, _, _, _),
          tupleLoop(_, _, _, _, _, _), recordLoop(_, _, _, _, _, _, _),
          intersectionLoop(_, _, _, _, _, _), templateLoop(_, _, _, _, _, _, _),
          extractKeyNames(_, _, _)

\* Object.assign(merged, value)
RECURSIVE assign(_, _, _)
assignMissing(merged, value, n) ==
  IF n = 0 THEN merged
  ELSE LET prev == assign(merged, value, n - 1)
       IN IF HasKey(prev, value[n].k) THEN prev ELSE Put(prev, value[n].k, value[n].v)

assign(merged, value, n) ==
  IF n = 0 THEN merged ELSE Put(assign(merged, value, n - 1), value[n].k, value[n].v)

\* obj[propName] = value, value being what generateValue returned or threw
setProperty(prev, propName, g) ==
  IF Failed(g) THEN g ELSE [v |-> Object(Put(prev.v.v, propName, g.v)), r |-> g.r]

mathRandomRoll(typeInfo, fk) ==
  [skip |-> Has(typeInfo, "isOptional") /\ typeInfo.isOptional /\ fk.now = 0, r |-> fk]

\* typeInfo.isOptional && random() < 0.3: the draw is made for optional properties only
skipRoll(typeInfo, fk) ==
  IF Has(typeInfo, "isOptional") /\ typeInfo.isOptional
  THEN [skip |-> fakerNumberFloat(fk).v < 9, r |-> fakerNumberFloat(fk).r]
  ELSE [skip |-> FALSE, r |-> fk]

\* one round of the property loop: the property is skipped, or generated and set
continueSwapped(prev, propName, typeInfo, roll, allInterfaces, d) ==
  IF ~roll.skip THEN [v |-> prev.v, r |-> roll.r]
  ELSE setProperty(prev, propName, generateValue(propName, typeInfo, allInterfaces, roll.r, d + 1))

propertyStep(prev, propName, typeInfo, roll, allInterfaces, d) ==
  IF roll.skip THEN [v |-> prev.v, r |-> roll.r]
  ELSE setProperty(prev, propName, generateValue(propName, typeInfo, allInterfaces, roll.r, d + 1))

\* the rounds after prev, unless an earlier round threw
propertyRound(prev, propName, typeInfo, allInterfaces, d) ==
  IF Failed(prev) THEN prev
  ELSE propertyStep(prev, propName, typeInfo, skipRoll(typeInfo, prev.r), allInterfaces, d)

\* the object built from the first n properties: optional ones skipped with probability 0.3
propertiesLoop(properties, n, allInterfaces, fk, d) ==
  IF n = 0 THEN [v |-> Object(<<>>), r |-> fk]
  ELSE propertyRound(propertiesLoop(properties, n - 1, allInterfaces, fk, d),
                     properties[n].k, properties[n].v, allInterfaces, d)

generateObjectFromInterface(interfaceInfo, allInterfaces, fk, d) ==
  IF d > MaxStack THEN stackExhausted(fk)
  ELSE IF ~Has(interfaceInfo, "properties") THEN [v |-> Throw("TypeError"), r |-> fk]
  ELSE propertiesLoop(interfaceInfo.properties, Len(interfaceInfo.properties), allInterfaces, fk, d)

\* n values of one element type (arrays and sets)
elementsLoop(n, fieldName, elementType, allInterfaces, fk, d) ==
  IF n = 0 THEN [v |-> Array(<<>>), r |-> fk]
  ELSE LET prev == elementsLoop(n - 1, fieldName, elementType, allInterfaces, fk, d)
           g == IF elementType.kind = "none" THEN fakerText(prev.r, "lorem.word")
                ELSE generateValue(fieldName, elementType, allInterfaces, prev.r, d + 1)
       IN IF Failed(prev) THEN prev
          ELSE IF Failed(g) THEN g
          ELSE [v |-> Array(Append(prev.v.v, g.v)), r |-> g.r]

tupleLoop(tupleElements, n, fieldName, allInterfaces, fk, d) ==
  IF n = 0 THEN [v |-> Array(<<>>), r |-> fk]
  ELSE LET prev == tupleLoop(tupleElements, n - 1, fieldName, allInterfaces, fk, d)
           element == tupleElements[n]
           g == generateValue(elementHint(element, fieldName), element.type, allInterfaces,
                              prev.r, d + 1)
       IN IF Failed(prev) THEN prev
          ELSE IF Failed(g) THEN g
          ELSE [v |-> Array(Append(prev.v.v, g.v)), r |-> g.r]

\* the record after n of its key/value slots
recordLoop(n, fieldName, keyType, valueType, allInterfaces, fk, d) ==
  IF n = 0 THEN [v |-> Object(<<>>), r |-> fk]
  ELSE LET prev == recordLoop(n - 1, fieldName, keyType, valueType, allInterfaces, fk, d)
           keyFieldHint == IF Has(keyType, "keyHint") /\ keyType.keyHint # "" THEN keyType.keyHint
                           ELSE IF keyType.kind = "unknown" THEN keyType.name ELSE "key"
           key == generateValue(keyFieldHint, keyType, allInterfaces, prev.r, d + 1)
           isPrimitive == valueType.name \in {"string", "number", "boolean"}
           valueFieldHint == IF isPrimitive THEN fieldName
                             ELSE IF valueType.name # "" THEN valueType.name ELSE fieldName
           val == generateValue(valueFieldHint, valueType, allInterfaces, key.r, d + 1)
       IN IF Failed(prev) THEN prev
          ELSE IF Failed(key) THEN key
          ELSE IF Failed(val) THEN val
          ELSE [v |-> Object(Put(prev.v.v, Join(String(key.v)), val.v)), r |-> val.r]

intersectionLoop(intersectionTypes, n, fieldName, allInterfaces, fk, d) ==
  IF n = 0 THEN [v |-> Object(<<>>), r |-> fk]
  ELSE LET prev == intersectionLoop(intersectionTypes, n - 1, fieldName, allInterfaces, fk, d)
           g == generateValue(fieldName, intersectionTypes[n], allInterfaces, prev.r, d + 1)
       IN IF Failed(prev) THEN prev
          ELSE IF Failed(g) THEN g
          ELSE IF g.v.t = "obj"
          THEN [v |-> Object(assign(prev.v.v, g.v.v, Len(g.v.v))), r |-> g.r]
          ELSE [v |-> prev.v, r |-> g.r]

\* String.prototype.replace over the pattern from position i on, text being the result so far
templateLoop(chars, i, text, fieldName, allInterfaces, fk, d) ==
  IF i > Len(chars) THEN [v |-> Str(text), r |-> fk]
  ELSE LET j == placeholderEnd(chars, i)
           nameChars == SubSeq(chars, i + 2, j - 1)
           name == Join(nameChars)
           kind == Join(toLowerCaseChars(nameChars))
           g == IF kind \in {"number", "string", "boolean"}
                THEN generatePrimitiveValue(fieldName, [name |-> name, kind |-> kind], fk)
                ELSE generateValue(name, [name |-> name, kind |-> "unknown"], allInterfaces, fk, d + 1)
       IN IF j = 0
          THEN templateLoop(chars, i + 1, Append(text, chars[i]), fieldName, allInterfaces, fk, d)
          ELSE IF Failed(g) THEN g
          ELSE templateLoop(chars, j + 1, text \o String(g.v), fieldName, allInterfaces, g.r, d)

generateTemplateValue(fieldName, pattern, allInterfaces, fk, d) ==
  templateLoop(removeBackticks(pattern), 1, <<>>, fieldName, allInterfaces, fk, d)

\* the property names a Pick/Omit key type denotes, as [thrown, names]
extractKeyNames(type, allInterfaces, d) ==
  IF d > MaxStack THEN [thrown |-> TRUE, names |-> {}]
  ELSE CASE type.kind = "none" -> [thrown |-> FALSE, names |-> {}]
    [] type.kind = "literal" -> [thrown |-> FALSE, names |-> {Join(String(type.literalValue))}]
    [] type.kind = "enum" /\ Has(type, "enumValues") ->
         [thrown |-> FALSE,
          names |-> {Join(String(type.enumValues[i])) : i \in 1..Len(type.enumValues)}]
    [] type.kind = "union" /\ Has(type, "unionTypes") ->
         LET parts == [i \in 1..Len(type.unionTypes) |->
                         extractKeyNames(type.unionTypes[i], allInterfaces, d + 1)]
         IN [thrown |-> \E i \in 1..Len(parts) : parts[i].thrown,
             names |-> UNION {parts[i].names : i \in 1..Len(parts)}]
    [] type.kind = "unknown" ->
         LET a == find(allInterfaces, type.name)
         IN IF a # 0 /\ HasKey(allInterfaces[a].properties, "__value")
            THEN extractKeyNames(Get(allInterfaces[a].properties, "__value"), allInterfaces, d + 1)
            ELSE [thrown |-> FALSE, names |-> {}]
    [] OTHER -> [thrown |-> FALSE, names |-> {}]

\* Partial / Required: every property with its optionality forced
keepOptional(properties, isOptional) == properties

forceOptional(properties, isOptional) ==
  [i \in 1..Len(properties) |->
     [k |-> properties[i].k, v |-> Merge(properties[i].v, [isOptional |-> isOptional])]]

filterSwapped(properties, utilityType, keyNames) ==
  SelectSeq(properties,
            LAMBDA p : IF utilityType = "Pick" THEN p.k \notin keyNames ELSE p.k \in keyNames)

\* Pick / Omit: the properties kept
filterProperties(properties, utilityType, keyNames) ==
  SelectSeq(properties,
            LAMBDA p : IF utilityType = "Pick" THEN p.k \in keyNames ELSE p.k \notin keyNames)

generateUtility(fieldName, typeInfo, allInterfaces, fk, d) ==
  LET args == IF Has(typeInfo, "utilityTypeArgs") THEN typeInfo.utilityTypeArgs ELSE <<>>
      baseType == IF Len(args) >= 1 THEN args[1] ELSE NoNode
      utilityType == typeInfo.utilityType
      base == IF baseType.kind = "unknown" THEN find(allInterfaces, baseType.name) ELSE 0
      fallback == generateValue(fieldName, baseType, allInterfaces, fk, d + 1)
  IN IF baseType.kind = "none" THEN [v |-> Null, r |-> fk]
     ELSE IF utilityType \in {"Lowercase", "Uppercase", "Capitalize", "Uncapitalize"}
     THEN LET fieldHint == IF baseType.kind \in {"unknown", "string"}
                           THEN (IF baseType.name = "string" THEN fieldName ELSE baseType.name)
                           ELSE fieldName
              g == generateValue(fieldHint, baseType, allInterfaces, fk, d + 1)
          IN IF Failed(g) THEN g
             ELSE [v |-> Str(caseTransform(utilityType, String(g.v))), r |-> g.r]
     ELSE IF base # 0 /\ utilityType \in {"Partial", "Required"}
     THEN generateObjectFromInterface(
            [name |-> allInterfaces[base].name,
             properties |-> forceOptional(allInterfaces[base].properties, utilityType = "Partial")],
            allInterfaces, fk, d + 1)
     ELSE IF utilityType \in {"Readonly", "Promise"} THEN fallback
     ELSE IF utilityType = "Record" /\ Len(args) >= 2
     THEN LET size == recordSize(fk)
          IN recordLoop(size.v, fieldName, args[1], args[2], allInterfaces, size.r, d)
     ELSE IF utilityType \in {"Pick", "Omit"} /\ base # 0
     THEN LET keys == extractKeyNames(IF Len(args) >= 2 THEN args[2] ELSE NoNode,
                                      allInterfaces, d + 1)
          IN IF keys.thrown THEN [v |-> Throw("RangeError"), r |-> fk]
             ELSE generateObjectFromInterface(
                    [name |-> allInterfaces[base].name,
                     properties |-> filterProperties(allInterfaces[base].properties,
                                                     utilityType, keys.names)],
                    allInterfaces, fk, d + 1)
     ELSE fallback

generateValue(fieldName, typeInfo, allInterfaces, fk, d) ==
  LET ref == IF typeInfo.kind = "unknown" THEN find(allInterfaces, typeInfo.name) ELSE 0
  IN IF d > MaxStack THEN stackExhausted(fk)
     ELSE IF typeInfo.kind = "literal" THEN [v |-> typeInfo.literalValue, r |-> fk]
     ELSE IF typeInfo.kind = "template" /\ Has(typeInfo, "templatePattern")
             /\ Len(typeInfo.templatePattern) > 0
     THEN generateTemplateValue(fieldName, typeInfo.templatePattern, allInterfaces, fk, d)
     ELSE IF typeInfo.kind = "enum" /\ Has(typeInfo, "enumValues")
     THEN arrayElement(fk, typeInfo.enumValues)
     ELSE IF ref # 0
     THEN (IF HasKey(allInterfaces[ref].properties, "__value")
           THEN generateValue(typeInfo.name, Get(allInterfaces[ref].properties, "__value"),
                              allInterfaces, fk, d + 1)
           ELSE generateObjectFromInterface(allInterfaces[ref], allInterfaces, fk, d + 1))
     ELSE IF typeInfo.kind = "array" /\ Has(typeInfo, "arrayElementType")
     THEN LET length == numberInt(fk, 1, 5)
          IN elementsLoop(length.v, fieldName, typeInfo.arrayElementType, allInterfaces, length.r, d)
     ELSE IF typeInfo.kind = "tuple" /\ Has(typeInfo, "tupleElements")
     THEN tupleLoop(typeInfo.tupleElements, Len(typeInfo.tupleElements), fieldName,
                    allInterfaces, fk, d)
     ELSE IF typeInfo.kind = "map"
     THEN generateValue(fieldName,
            [name |-> "Record", kind |-> "utility", utilityType |-> "Record",
             utilityTypeArgs |->
               << IF Has(typeInfo, "mapKeyType") THEN typeInfo.mapKeyType
                  ELSE [name |-> "string", kind |-> "string"],
                  IF Has(typeInfo, "mapValueType") THEN typeInfo.mapValueType
                  ELSE [name |-> "string", kind |-> "string"] >>],
            allInterfaces, fk, d + 1)
     ELSE IF typeInfo.kind = "set"
     THEN LET size == numberInt(fk, 2, 5)
          IN elementsLoop(size.v, fieldName,
                          IF Has(typeInfo, "setElementType") THEN typeInfo.setElementType ELSE NoNode,
                          allInterfaces, size.r, d)
     ELSE IF typeInfo.kind = "utility" /\ Has(typeInfo, "utilityType")
     THEN generateUtility(fieldName, typeInfo, allInterfaces, fk, d)
     ELSE IF typeInfo.kind = "object" /\ Has(typeInfo, "objectProperties")
     THEN propertiesLoop(typeInfo.objectProperties, Len(typeInfo.objectProperties),
                         allInterfaces, fk, d)
     ELSE IF typeInfo.kind = "union" /\ Has(typeInfo, "unionTypes")
     THEN LET selectedType == arrayElement(fk, typeInfo.unionTypes)
          IN generateValue(fieldName, selectedType.v, allInterfaces, selectedType.r, d + 1)
     ELSE IF typeInfo.kind = "intersection" /\ Has(typeInfo, "intersectionTypes")
     THEN intersectionLoop(typeInfo.intersectionTypes, Len(typeInfo.intersectionTypes),
                           fieldName, allInterfaces, fk, d)
     ELSE generatePrimitiveValue(fieldName, typeInfo, fk)

\* result.push(mockData), mockData being what generateObjectFromInterface returned or threw
push(prev, mockData) ==
  IF Failed(mockData) THEN mockData
  ELSE [v |-> Array(Append(prev.v.v, mockData.v)), r |-> mockData.r]

\* one round of the quantity loop after prev
quantityRound(prev, interfaces) ==
  IF Failed(prev) THEN prev
  ELSE IF Len(interfaces) = 0 THEN prev
  ELSE push(prev, generateObjectFromInterface(findRootInterface(interfaces), interfaces,
                                              prev.r, 1))

\* the result array after n rounds of the quantity loop
RECURSIVE quantityLoop(_, _, _)
quantityLoop(interfaces, n, fk) ==
  IF n = 0 THEN [v |-> Array(<<>>), r |-> fk]
  ELSE quantityRound(quantityLoop(interfaces, n - 1, fk), interfaces)

\* return { seed, result }, or the exception that ended the loop
returned(looped, seed) ==
  IF Failed(looped) THEN [t |-> "throw", v |-> looped.v.v, seed |-> seed, r |-> looped.r]
  ELSE [t |-> "ok", result |-> looped.v.v, seed |-> seed, r |-> looped.r]

\* generateMockData(interfaces, { quantity, seed }) at clock now: { seed, result } or the exception
generateMockData(interfaces, quantity, seed, now) ==
  returned(quantityLoop(interfaces, quantity, fakerSeed(seed, now)), seed)

(***************************************************************************)
(* The sources the editor is loaded with.                                  *)
(***************************************************************************)
String_ == Kw("StringKeyword")
Number_ == Kw("NumberKeyword")
Boolean_ == Kw("BooleanKeyword")
Backquoted(text) == <<Backquote>> \o Spell(text) \o <<Backquote>>

\* interface User { id: string; age: number; role: 'admin' | 'user' }
UserSource ==
  << Interface("User", << Prop("id", String_), Prop("age", Number_),
                          Prop("role", UnionType(<<StringLit("admin"), StringLit("user")>>)) >>) >>

\* interface Product { sku: template ${Category}-${number}-${Size}; code: template #${Number}/${Missing};
\*                     age: template ${number}y ${Email}; email: template ${STRING}/${Boolean} }
\* type Category = 'ELEC' | 'FURN' | 'CLTH'; type Size = 'SM' | 'MD' | 'LG'; type Email = string
ProductSource ==
  << Interface("Product",
       << Prop("sku", TemplateType(Backquoted("${Category}-${number}-${Size}"))),
          Prop("code", TemplateType(Backquoted("#${Number}/${Missing}"))),
          Prop("age", TemplateType(Backquoted("${number}y ${Email}"))),
          Prop("email", TemplateType(Backquoted("${STRING}/${Boolean}"))) >>),
     TypeAlias("Category", UnionType(<<StringLit("ELEC"), StringLit("FURN"), StringLit("CLTH")>>)),
     TypeAlias("Size", UnionType(<<StringLit("SM"), StringLit("MD"), StringLit("LG")>>)),
     TypeAlias("Email", String_) >>

\* interface Meeting { title: string; when: Date }
MeetingSource ==
  << Interface("Meeting", << Prop("title", String_), Prop("when", Ref("Date")) >>) >>

EmptySource == <<>>

\* type Age = number
AliasOnlySource == << TypeAlias("Age", Number_) >>

\* interface Node { value: string; next?: Node }  interface Other { x: string }
SelfReferenceSource ==
  << Interface("Node", << Prop("value", String_), OptProp("next", Ref("Node")) >>),
     Interface("Other", << Prop("x", String_) >>) >>

\* interface Point { x: number }  interface Shape { at: [Point, string] }
TupleReferenceSource ==
  << Interface("Point", << Prop("x", Number_) >>),
     Interface("Shape", << Prop("at", TupleType(<<Ref("Point"), String_>>)) >>) >>

\* interface Person { firstName: string; email?: string }
\* interface Company { name: string; owner: Person; staff: Person[] }
CompanySource ==
  << Interface("Person", << Prop("firstName", String_), OptProp("email", String_) >>),
     Interface("Company", << Prop("name", String_), Prop("owner", Ref("Person")),
                             Prop("staff", ArrayType(Ref("Person"))) >>) >>

\* interface Husband { wife?: Wife }  interface Wife { husband?: Husband }
CoupleSource ==
  << Interface("Husband", << OptProp("wife", Ref("Wife")) >>),
     Interface("Wife", << OptProp("husband", Ref("Husband")) >>) >>

\* type Tree = { value: number; children: Tree[] }
TreeSource ==
  << TypeAlias("Tree", TypeLiteral(<< Prop("value", Number_),
                                      Prop("children", ArrayType(Ref("Tree"))) >>)) >>

\* type Ping = Pong[]; type Pong = Ping[]; interface Game { first: Ping }
PingPongSource ==
  << TypeAlias("Ping", ArrayType(Ref("Pong"))), TypeAlias("Pong", ArrayType(Ref("Ping"))),
     Interface("Game", << Prop("first", Ref("Ping")) >>) >>

\* interface Config { map: Record<string, number>; one: Record<'a', number>;
\*                    dict: { [key: string]: number }; lookup: Map<string, number>;
\*                    flags: Record<Mode, boolean> }
\* type Mode = 'on' | 'off'
ConfigSource ==
  << Interface("Config",
       << Prop("map", RefA("Record", <<String_, Number_>>)),
          Prop("one", RefA("Record", <<StringLit("a"), Number_>>)),
          Prop("dict", TypeLiteral(<<IndexSig("key", String_, Number_)>>)),
          Prop("lookup", RefA("Map", <<String_, Number_>>)),
          Prop("flags", RefA("Record", <<Ref("Mode"), Boolean_>>)) >>),
     TypeAlias("Mode", UnionType(<<StringLit("on"), StringLit("off")>>)) >>

\* interface Order { id: string; customer: Customer; total: number; note?: string }
OrderSource ==
  << Interface("Order", << Prop("id", String_), Prop("customer", Ref("Customer")),
                           Prop("total", Number_), OptProp("note", String_) >>) >>

\* interface View { a: Pick<Entity, 'x'>; b: Omit<Entity, 'x'>; c: Pick<Entity, 'x' | 'y'>;
\*                  d: Omit<Entity, 'x' | 'y'>; e: Pick<Entity, Keys>; f: Omit<Entity, Keys>;
\*                  g: Pick<Entity, 'x' | Zed>; h: Omit<Entity, 'x' | Zed>;
\*                  i: Pick<Entity, Zed>; j: Omit<Entity, Zed>;
\*                  k: Pick<Entity, 'x' | Keys>; l: Omit<Entity, 'x' | Keys>;
\*                  m: Pick<Entity, Both>; n: Omit<Entity, Both> }
\* interface Entity { x: string; y: number; z: boolean }
\* type Keys = 'y' | 'z' | 'w'; type Zed = 'z'; type Both = 'x' | Zed
ViewSource ==
  LET xy == UnionType(<<StringLit("x"), StringLit("y")>>)
      xZed == UnionType(<<StringLit("x"), Ref("Zed")>>)
      xKeys == UnionType(<<StringLit("x"), Ref("Keys")>>)
  IN << Interface("View",
          << Prop("a", RefA("Pick", <<Ref("Entity"), StringLit("x")>>)),
             Prop("b", RefA("Omit", <<Ref("Entity"), StringLit("x")>>)),
             Prop("c", RefA("Pick", <<Ref("Entity"), xy>>)),
             Prop("d", RefA("Omit", <<Ref("Entity"), xy>>)),
             Prop("e", RefA("Pick", <<Ref("Entity"), Ref("Keys")>>)),
             Prop("f", RefA("Omit", <<Ref("Entity"), Ref("Keys")>>)),
             Prop("g", RefA("Pick", <<Ref("Entity"), xZed>>)),
             Prop("h", RefA("Omit", <<Ref("Entity"), xZed>>)),
             Prop("i", RefA("Pick", <<Ref("Entity"), Ref("Zed")>>)),
             Prop("j", RefA("Omit", <<Ref("Entity"), Ref("Zed")>>)),
             Prop("k", RefA("Pick", <<Ref("Entity"), xKeys>>)),
             Prop("l", RefA("Omit", <<Ref("Entity"), xKeys>>)),
             Prop("m", RefA("Pick", <<Ref("Entity"), Ref("Both")>>)),
             Prop("n", RefA("Omit", <<Ref("Entity"), Ref("Both")>>)) >>),
        Interface("Entity", << Prop("x", String_), Prop("y", Number_), Prop("z", Boolean_) >>),
        TypeAlias("Keys", UnionType(<<StringLit("y"), StringLit("z"), StringLit("w")>>)),
        TypeAlias("Zed", StringLit("z")),
        TypeAlias("Both", xZed) >>

\* interface Data { pair: [string, number]; age: [number, boolean];
\*                  named: [email: string, year: number, label: string]; solo: [Level] }
\* type Level = 1 | 2 | 3
DataSource ==
  << Interface("Data",
       << Prop("pair", TupleType(<<String_, Number_>>)),
          Prop("age", TupleType(<<Number_, Boolean_>>)),
          Prop("named", TupleType(<<NamedMember("email", String_), NamedMember("year", Number_),
                                    NamedMember("label", String_)>>)),
          Prop("solo", TupleType(<<Ref("Level")>>)) >>),
     TypeAlias("Level", UnionType(<<NumericLit("1"), NumericLit("2"), NumericLit("3")>>)) >>

\* interface Task { status: 'todo' | 'doing' | 'done'; priority: Priority; done: true | false;
\*                  size: 1 | 'one'; tags: ('a' | 'b')[]; mixed: 'x' | number }
\* type Priority = 3 | 2 | 1
TaskSource ==
  << Interface("Task",
       << Prop("status", UnionType(<<StringLit("todo"), StringLit("doing"), StringLit("done")>>)),
          Prop("priority", Ref("Priority")),
          Prop("done", UnionType(<<TrueLit, FalseLit>>)),
          Prop("size", UnionType(<<NumericLit("1"), StringLit("one")>>)),
          Prop("tags", ArrayType(Paren(UnionType(<<StringLit("a"), StringLit("b")>>)))),
          Prop("mixed", UnionType(<<StringLit("x"), Number_>>)) >>),
     TypeAlias("Priority", UnionType(<<NumericLit("3"), NumericLit("2"), NumericLit("1")>>)) >>

\* interface Reading { delta: -1 | 1 }
ReadingSource ==
  << Interface("Reading", << Prop("delta", UnionType(<<NegativeLit("-1"), NumericLit("1")>>)) >>) >>

\* interface Sample { id: string; note?: string; tags: string[]; role: 'a' | 'b';
\*                    mixed: 'x' | number; bag: Set<boolean>; rec: Record<string, number> }
SampleSource ==
  << Interface("Sample",
       << Prop("id", String_), OptProp("note", String_), Prop("tags", ArrayType(String_)),
          Prop("role", UnionType(<<StringLit("a"), StringLit("b")>>)),
          Prop("mixed", UnionType(<<StringLit("x"), Number_>>)),
          Prop("bag", RefA("Set", <<Boolean_>>)),
          Prop("rec", RefA("Record", <<String_, Number_>>)) >>) >>

\* interface Member { name: First; email: Handle; age: Year; level: Age; year: number;
\*                    title: string; tags: First[] }
\* type First = string; type Handle = string; type Year = number; type Age = number
MemberSource ==
  << Interface("Member",
       << Prop("name", Ref("First")), Prop("email", Ref("Handle")), Prop("age", Ref("Year")),
          Prop("level", Ref("Age")), Prop("year", Number_), Prop("title", String_),
          Prop("tags", ArrayType(Ref("First"))) >>),
     TypeAlias("First", String_), TypeAlias("Handle", String_),
     TypeAlias("Year", Number_), TypeAlias("Age", Number_) >>

Sources ==
  << UserSource, ProductSource, MeetingSource, EmptySource, AliasOnlySource, SelfReferenceSource,
     TupleReferenceSource, CompanySource, CoupleSource, TreeSource, PingPongSource, ConfigSource,
     OrderSource, ViewSource, DataSource, TaskSource, ReadingSource, SampleSource, MemberSource >>

\* a second batch of sources, for the collection, utility, intersection and cyclic types
ShapeSources ==
  LET Date_ == Ref("Date")
      Hello == StringLit("Hello World")
  IN
  << \* interface Log { at: Date; seen: Date[]; list: Array<Date>; pair: [Date, string];
     \*                 byDay: Map<string, Date>; days: Set<Date>; ro: Readonly<Date>;
     \*                 rec: Record<string, Date>; idx: { [day: string]: Date } }
     << Interface("Log",
          << Prop("at", Date_), Prop("seen", ArrayType(Date_)),
             Prop("list", RefA("Array", <<Date_>>)), Prop("pair", TupleType(<<Date_, String_>>)),
             Prop("byDay", RefA("Map", <<String_, Date_>>)), Prop("days", RefA("Set", <<Date_>>)),
             Prop("ro", RefA("Readonly", <<Date_>>)),
             Prop("rec", RefA("Record", <<String_, Date_>>)),
             Prop("idx", TypeLiteral(<<IndexSig("day", String_, Date_)>>)) >>) >>,
     \* interface Roster { list: Array<First>; byName: Map<First, Age>; seen: Set<First>;
     \*                    ro: Readonly<First>; rec: Record<First, Age>; low: Lowercase<First> }
     \* type First = string; type Age = number
     << Interface("Roster",
          << Prop("list", RefA("Array", <<Ref("First")>>)),
             Prop("byName", RefA("Map", <<Ref("First"), Ref("Age")>>)),
             Prop("seen", RefA("Set", <<Ref("First")>>)),
             Prop("ro", RefA("Readonly", <<Ref("First")>>)),
             Prop("rec", RefA("Record", <<Ref("First"), Ref("Age")>>)),
             Prop("low", RefA("Lowercase", <<Ref("First")>>)) >>),
        TypeAlias("First", String_), TypeAlias("Age", Number_) >>,
     \* interface Case { low: Lowercase<'Hello World'>; up: Uppercase<'Hello World'>;
     \*                  cap: Capitalize<'hello World'>; unc: Uncapitalize<'Hello World'>;
     \*                  name: Capitalize<First>; title: Uppercase<string> }
     \* type First = string
     << Interface("Case",
          << Prop("low", RefA("Lowercase", <<Hello>>)), Prop("up", RefA("Uppercase", <<Hello>>)),
             Prop("cap", RefA("Capitalize", <<StringLit("hello World")>>)),
             Prop("unc", RefA("Uncapitalize", <<Hello>>)),
             Prop("name", RefA("Capitalize", <<Ref("First")>>)),
             Prop("title", RefA("Uppercase", <<String_>>)) >>),
        TypeAlias("First", String_) >>,
     \* interface Ring { next: Link }  interface Link { back: Ring }
     << Interface("Ring", << Prop("next", Ref("Link")) >>),
        Interface("Link", << Prop("back", Ref("Ring")) >>) >>,
     \* interface Home { id: string }  interface Hen { egg: Egg }  interface Egg { hen: Hen }
     << Interface("Home", << Prop("id", String_) >>),
        Interface("Hen", << Prop("egg", Ref("Egg")) >>),
        Interface("Egg", << Prop("hen", Ref("Hen")) >>) >>,
     \* interface Chain { next: Chain | 'end' }
     << Interface("Chain", << Prop("next", UnionType(<<Ref("Chain"), StringLit("end")>>)) >>) >>,
     \* interface Husband { wife?: Wife }  interface Wife { husband?: Husband }
     CoupleSource,
     \* interface Form { part: Partial<Person>; p: Person; req: Required<Person>; q: Person;
     \*                  inline: { a: string; b?: number } }
     \* interface Person { name: string; nick?: string; age?: number }
     << Interface("Form",
          << Prop("part", RefA("Partial", <<Ref("Person")>>)), Prop("p", Ref("Person")),
             Prop("req", RefA("Required", <<Ref("Person")>>)), Prop("q", Ref("Person")),
             Prop("inline", TypeLiteral(<<Prop("a", String_), OptProp("b", Number_)>>)) >>),
        Interface("Person",
          << Prop("name", String_), OptProp("nick", String_), OptProp("age", Number_) >>) >>,
     \* interface Leak { pa: Partial<Age>; rq: Required<Age>; om: Omit<Age, 'x'>; pk: Pick<Age, 'x'> }
     \* type Age = number
     << Interface("Leak",
          << Prop("pa", RefA("Partial", <<Ref("Age")>>)), Prop("rq", RefA("Required", <<Ref("Age")>>)),
             Prop("om", RefA("Omit", <<Ref("Age"), StringLit("x")>>)),
             Prop("pk", RefA("Pick", <<Ref("Age"), StringLit("x")>>)) >>),
        TypeAlias("Age", Number_) >>,
     \* interface Mix { both: A & B; over: A & C; prim: A & string; tags: A & string[];
     \*                 nul: Missing & A; lit: 'x' & true }
     \* interface A { x: string; y: number }  interface B { z: boolean }  interface C { x: number }
     << Interface("Mix",
          << Prop("both", IntersectionType(<<Ref("A"), Ref("B")>>)),
             Prop("over", IntersectionType(<<Ref("A"), Ref("C")>>)),
             Prop("prim", IntersectionType(<<Ref("A"), String_>>)),
             Prop("tags", IntersectionType(<<Ref("A"), ArrayType(String_)>>)),
             Prop("nul", IntersectionType(<<Ref("Missing"), Ref("A")>>)),
             Prop("lit", IntersectionType(<<StringLit("x"), TrueLit>>)) >>),
        Interface("A", << Prop("x", String_), Prop("y", Number_) >>),
        Interface("B", << Prop("z", Boolean_) >>),
        Interface("C", << Prop("x", Number_) >>) >> >>

\* every source of the two batches; code is an index into this list
AllSources == Sources \o ShapeSources

(***************************************************************************)
(* The state machine: a source is parsed, then generateMockData is called  *)
(* any number of times while the clock runs.                               *)
(***************************************************************************)
VARIABLES code,        \* the source in the editor, an index into AllSources
          interfaces,  \* the parser's outcome: [thrown, interfaces], or NoNode before parsing
          outcomes,    \* generateMockData tabulated on the parsed declarations
          random,      \* the module-level random function: "uninitialized" or "faker.number.float"
          faker,       \* the global faker state [s, now]
          now,         \* the wall clock
          last,        \* the latest generateMockData call: [quantity, seed, explicit, out]
          first        \* the first call made with an explicit seed

\* the other components, each exercised on its own: a primitive leaf under generation
VARIABLES leaf         \* [fieldName, typeInfo, faker, value]

generatorVars == <<code, interfaces, outcomes, random, faker, now, last, first>>

\* the page around the generator
VARIABLES page,        \* the page's state hooks: [interfaceCode, quantity, seed, recentSeeds, output,
                       \*   error, hasValidationWarning, isGenerating]
          run,         \* the latest run of handleGenerateMock and the seeds the generations used
          tabulated    \* what the parser and the generator return on the text in the editor

\* a debounced function
VARIABLES debounced,   \* what debounce was called with: [wait, immediate]
          timeout,     \* the pending timer [due, self, args], or NoCall for undefined
          time,        \* the time in milliseconds
          history      \* the calls of debounced and of cancel, the runs of later and the
                       \*   invocations of the callback, in the order they happened

leafVars == <<leaf>>

debounceVars == <<debounced, timeout, time, history>>

pageVars == <<page, run, tabulated>>

vars == <<generatorVars, leafVars, pageVars, debounceVars>>

NoCall == [t |-> "none"]

\* a component nothing has been done with
LeafIdle == leaf = NoCall

PageIdle == page = NoCall /\ run = NoCall /\ tabulated = NoCall

DebounceIdle == debounced = NoCall /\ timeout = NoCall /\ time = 0 /\ history = <<>>

Init ==
  /\ code \in 1..Len(Sources)
  /\ interfaces = NoNode
  /\ outcomes = <<>>
  /\ random = "uninitialized"
  /\ faker = [s |-> 1, now |-> 0]
  /\ now = 0
  /\ last = NoCall
  /\ first = NoCall
  /\ LeafIdle
  /\ PageIdle
  /\ DebounceIdle

\* what generateMockData returns on the declarations, for every config and clock of the model;
\* the calls below read it here instead of evaluating the generator again
Tabulate(parsed) ==
  IF parsed.thrown THEN <<>>
  ELSE [c \in (1..MaxQuantity) \X (0..MaxSeed) \X (0..MaxClock) |->
          generateMockData(parsed.interfaces, c[1], c[2], c[3])]

Parse ==
  /\ interfaces = NoNode
  /\ interfaces' = parseTypeScriptInterface(AllSources[code])
  /\ outcomes' = Tabulate(interfaces')
  /\ UNCHANGED <<code, random, faker, now, last, first>>
  /\ UNCHANGED <<leafVars, pageVars, debounceVars>>

\* the declarations after a call.  Every object the generator writes to is one it has just
\* made: obj, partialInterface ({ ...propType, isOptional }), filteredInterface, record,
\* nestedObj, merged and syntheticRecordType; the declaration list and its nodes are only read
writtenInPlace(decls) ==
  [i \in 1..Len(decls) |-> [decls[i] EXCEPT !.properties = forceOptional(@, TRUE)]]

written(decls) == decls

Call(quantity, seed, explicit) ==
  LET out == outcomes[<<quantity, seed, now>>]
      call == [t |-> "call", quantity |-> quantity, seed |-> seed, explicit |-> explicit,
               out |-> [f \in DOMAIN out \ {"r"} |-> out[f]]]
  IN /\ interfaces # NoNode
     /\ ~interfaces.thrown
     /\ random' = "faker.number.float"
     /\ faker' = out.r
     /\ last' = call
     /\ first' = IF first = NoCall /\ explicit THEN call ELSE first
     /\ interfaces' = [interfaces EXCEPT !.interfaces = written(@)]
     /\ UNCHANGED <<code, outcomes, now>>
     /\ UNCHANGED <<leafVars, pageVars, debounceVars>>

\* generateMockData(interfaces, { quantity, seed })
GenerateSeeded == \E quantity \in 1..MaxQuantity, seed \in 0..MaxSeed : Call(quantity, seed, TRUE)

\* generateMockData(interfaces, { quantity }): the seed comes from Math.random
GenerateUnseeded == \E quantity \in 1..MaxQuantity, seed \in 0..MaxSeed : Call(quantity, seed, FALSE)

Tick ==
  /\ now < MaxClock
  /\ now' = now + 1
  /\ UNCHANGED <<code, interfaces, outcomes, random, faker, last, first>>
  /\ UNCHANGED <<leafVars, pageVars, debounceVars>>

Next == Parse \/ GenerateSeeded \/ GenerateUnseeded \/ Tick

Spec == Init /\ [][Next]_vars

\* the same machine on the second batch of sources
ShapeInit ==
  /\ code \in (Len(Sources) + 1)..Len(AllSources)
  /\ interfaces = NoNode
  /\ outcomes = <<>>
  /\ random = "uninitialized"
  /\ faker = [s |-> 1, now |-> 0]
  /\ now = 0
  /\ last = NoCall
  /\ first = NoCall
  /\ LeafIdle
  /\ PageIdle
  /\ DebounceIdle

ShapeSpec == ShapeInit /\ [][Next]_vars

(***************************************************************************)
(* The field-semantics heuristic on its own: generatePrimitiveValue is     *)
(* applied to a string or number leaf under a field name, with or without  *)
(* a type hint, on a seeded stream.                                        *)
(***************************************************************************)
GeneratorIdle ==
  /\ code = 1
  /\ interfaces = NoNode
  /\ outcomes = <<>>
  /\ random = "uninitialized"
  /\ faker = [s |-> 1, now |-> 0]
  /\ now = 0
  /\ last = NoCall
  /\ first = NoCall

\* the field names the leaves are generated under
Names ==
  {"id", "uuid", "ID", "userId", "orderId", "productId", "cityId", "videoUrl", "width",
   "name", "fullName", "username", "userName", "USERNAME", "nickname", "firstName", "lastname",
   "email", "emailId", "zipcode", "organization", "title", "bio", "text", "label",
   "age", "Age", "pageCount", "percentage", "averageRating", "storageYear", "year",
   "price", "count", "total"}

\* the type hints: none, or the name of the alias the property was declared with
TypeHints == {NoHint, "Username", "Age", "Code"}

Leaves ==
  {[t |-> "leaf", fieldName |-> fieldName,
    typeInfo |-> [name |-> kind, kind |-> kind, typeHint |-> typeHint],
    faker |-> fakerSeed(seed, 0), value |-> NoCall] :
     fieldName \in Names, kind \in {"string", "number"}, typeHint \in TypeHints,
     seed \in 0..MaxSeed}

LeafInit ==
  /\ leaf \in Leaves
  /\ GeneratorIdle
  /\ PageIdle
  /\ DebounceIdle

\* generatePrimitiveValue(fieldName, typeInfo), on the stream as the previous draw left it
GenerateLeaf ==
  LET g == generatePrimitiveValue(leaf.fieldName, leaf.typeInfo, leaf.faker)
  IN /\ leaf' = [leaf EXCEPT !.value = g.v, !.faker = g.r]
     /\ UNCHANGED <<generatorVars, pageVars, debounceVars>>

LeafNext == GenerateLeaf

LeafSpec == LeafInit /\ [][LeafNext]_vars

(***************************************************************************)
(* The page: validateTypeScript and handleGenerateMock, the handler behind *)
(* the Generate button and the auto-generate timers.                       *)
(***************************************************************************)
\* a diagnostic of the TypeScript program: its message text and the name the message quotes
Diagnostic(message, name) == [message |-> message, name |-> name]

\* interface Box { items: Array<string>; size: number }
BoxSource ==
  << Interface("Box", << Prop("items", RefA("Array", <<String_>>)), Prop("size", Number_) >>) >>

\* the texts the editor is loaded with: the statements the parser sees and the diagnostics
\* the TypeScript program reports for them; the fourth text is a lone closing brace
Documents ==
  << [statements |-> UserSource, diagnostics |-> <<>>],
     [statements |-> OrderSource, diagnostics |-> <<Diagnostic("Cannot find name", "Customer")>>],
     [statements |-> BoxSource, diagnostics |-> <<Diagnostic("Cannot find name", "Array")>>],
     [statements |-> EmptySource,
      diagnostics |-> <<Diagnostic("Declaration or statement expected.", "")>>],
     [statements |-> TreeSource, diagnostics |-> <<>>],
     [statements |-> AliasOnlySource, diagnostics |-> <<>>] >>

builtInTypes == {"Array", "Set", "Map"} \cup utilityTypes

\* the diagnostics validateTypeScript leaves out of its report
skippedDiagnostic(diagnostic) ==
  \/ diagnostic.message = "too complex to represent"
  \/ diagnostic.message = "An index signature parameter type cannot be a literal type or generic type"
  \/ diagnostic.message = "Cannot find name" /\ diagnostic.name \in builtInTypes

\* validateTypeScript(code): { valid, errors }
validateTypeScript(document) ==
  LET errors == SelectSeq(document.diagnostics, LAMBDA diagnostic : ~skippedDiagnostic(diagnostic))
  IN [valid |-> Len(errors) = 0, errors |-> errors]

\* the error state: a text, and under it the lines of the validation report
ErrorText(text, errors) == [text |-> text, errors |-> errors]

NoError == ErrorText("", <<>>)

\* if (isManual) setError('TypeScript parsing errors:\n' + validation.errors.join('\n'))
shownAlways(isManual, validation) == ErrorText("TypeScript parsing errors:", validation.errors)

validationError(isManual, validation) ==
  IF isManual THEN ErrorText("TypeScript parsing errors:", validation.errors) ELSE NoError

\* the characters JSON text is made of besides those of the values
Quote == "QUOTE"
Backslash == "BACKSLASH"
Newline == "NEWLINE"

\* a string's characters, its quotes and backslashes escaped
RECURSIVE Escaped(_)
Escaped(chars) ==
  IF chars = <<>> THEN <<>>
  ELSE (IF Head(chars) \in {Quote, Backslash} THEN <<Backslash, Head(chars)>> ELSE <<Head(chars)>>)
       \o Escaped(Tail(chars))

Indent(depth) == [i \in 1..(2 * depth) |-> " "]

\* JSON.stringify(value, null, 2), as characters
RECURSIVE JSONstringify(_, _), stringifyFrom(_, _, _)
JSONstringify(value, depth) ==
  CASE value.t = "str" -> <<Quote>> \o Escaped(value.v) \o <<Quote>>
    [] value.t = "arr" -> IF Len(value.v) = 0 THEN <<"[", "]">>
                          ELSE <<"[">> \o stringifyFrom(value, 1, depth) \o <<"]">>
    [] value.t = "obj" -> IF Len(value.v) = 0 THEN <<"{", "}">>
                          ELSE <<"{">> \o stringifyFrom(value, 1, depth) \o <<"}">>
    [] OTHER -> String(value)

\* the items or properties from the i-th on, one to a line, and the line of the closing bracket
stringifyFrom(value, i, depth) ==
  LET item == IF value.t = "arr" THEN JSONstringify(value.v[i], depth + 1)
              ELSE <<Quote, value.v[i].k, Quote, ":", " ">> \o JSONstringify(value.v[i].v, depth + 1)
  IN <<Newline>> \o Indent(depth + 1) \o item
     \o (IF i = Len(value.v) THEN <<Newline>> \o Indent(depth)
         ELSE <<",">> \o stringifyFrom(value, i + 1, depth))

\* useState<number | undefined>(undefined): the seed field left empty
undefinedSeed == 0 - 1

\* setRecentSeeds(prev => ...): keep last 3, don't add duplicates
updateRecentSeeds(prev, seed) ==
  IF \E i \in 1..Len(prev) : prev[i] = seed THEN prev
  ELSE SubSeq(<<seed>> \o prev, 1, IF Len(prev) + 1 < 3 THEN Len(prev) + 1 ELSE 3)

\* the seeds the generations used, the latest first, each once, three at most
usedSeeds(prev, seed) ==
  LET others == SelectSeq(prev, LAMBDA s : s # seed)
  IN SubSeq(<<seed>> \o others, 1, IF Len(others) + 1 < 3 THEN Len(others) + 1 ELSE 3)

\* what parseTypeScriptInterface returns on a document, and generateMockData on its
\* declarations for every config and clock of the model; the handler reads them here
Tabulated(parsed) == [parsed |-> parsed, outcomes |-> Tabulate(parsed)]

TabulatePage(c) == Tabulated(parseTypeScriptInterface(Documents[c].statements))

PageInit ==
  /\ page \in {[interfaceCode |-> c, quantity |-> 1, seed |-> undefinedSeed, recentSeeds |-> <<>>,
                 output |-> <<>>, error |-> NoError, hasValidationWarning |-> FALSE,
                 isGenerating |-> FALSE] : c \in 1..Len(Documents)}
  /\ run = [t |-> "none", used |-> <<>>]
  /\ tabulated = TabulatePage(page.interfaceCode)
  /\ GeneratorIdle
  /\ LeafIdle
  /\ DebounceIdle

\* the seed field's onChange and the recent-seed buttons: setSeed(s)
SetSeed ==
  /\ \E s \in {undefinedSeed} \cup (0..MaxSeed) : page' = [page EXCEPT !.seed = s]
  /\ UNCHANGED <<run, tabulated, generatorVars, leafVars, debounceVars>>

\* interfaces.length > 0, when the parser returned
declared(parsed) == ~parsed.thrown /\ Len(parsed.interfaces) > 0

\* the handler from setError('') to the finally block, given what validateTypeScript,
\* parseTypeScriptInterface and generateMockData returned or threw
handled(isManual, validation, parsed, mockData) ==
  LET generated == declared(parsed) /\ mockData.t = "ok"
      cleared == [page EXCEPT !.error = validationError(isManual, validation), !.output = <<>>,
                              !.hasValidationWarning = ~validation.valid, !.isGenerating = FALSE]
  IN /\ page' =
          CASE parsed.thrown -> [cleared EXCEPT !.error = ErrorText("RangeError", <<>>)]
            [] ~parsed.thrown /\ ~declared(parsed) ->
                 [cleared EXCEPT !.error = ErrorText("No interfaces found. Please define at least one interface.", <<>>)]
            [] declared(parsed) /\ ~generated -> [cleared EXCEPT !.error = ErrorText(mockData.v, <<>>)]
            [] generated ->
                 [cleared EXCEPT !.recentSeeds = updateRecentSeeds(page.recentSeeds, mockData.seed),
                                 !.output = JSONstringify(Array(mockData.result), 0)]
     /\ run' = [t |-> "run", isManual |-> isManual, validation |-> validation,
                parsed |-> [thrown |-> parsed.thrown, declared |-> declared(parsed)],
                mockData |-> IF declared(parsed) THEN [f \in DOMAIN mockData \ {"r"} |-> mockData[f]]
                             ELSE NoCall,
                used |-> IF generated THEN usedSeeds(run.used, mockData.seed) ELSE run.used]
     /\ random' = IF declared(parsed) THEN "faker.number.float" ELSE random
     /\ faker' = IF declared(parsed) THEN mockData.r ELSE faker
     /\ UNCHANGED <<tabulated, code, interfaces, outcomes, now, last, first, leafVars, debounceVars>>

\* handleGenerateMock.current(isManual); seed is the seed field or, when that is empty, what
\* Math.random gives generateMockData
handleGenerateMock(isManual, seed) ==
  handled(isManual, validateTypeScript(Documents[page.interfaceCode]), tabulated.parsed,
          IF declared(tabulated.parsed) THEN tabulated.outcomes[<<page.quantity, seed, now>>]
          ELSE NoCall)

\* the Generate button
GenerateManual ==
  \E seed \in 0..MaxSeed : (page.seed # undefinedSeed => seed = page.seed)
                           /\ handleGenerateMock(TRUE, seed)

\* the debounced auto-generation and the timers of the example and recent-seed buttons
GenerateAuto ==
  \E seed \in 0..MaxSeed : (page.seed # undefinedSeed => seed = page.seed)
                           /\ handleGenerateMock(FALSE, seed)

PageNext == SetSeed \/ GenerateManual \/ GenerateAuto

PageSpec == PageInit /\ [][PageNext]_vars

(***************************************************************************)
(* debounce(cb, wait, immediate): the debounced function, its cancel and   *)
(* the timer callback later.  A timer runs when the time reaches its due   *)
(* time; a call made at that very millisecond comes before or after it.    *)
(***************************************************************************)
\* the this and the arguments debounced is called with
Payloads ==
  {[self |-> "window", args |-> <<"keypress">>], [self |-> "input", args |-> <<"change">>]}

Event(e, at, self, args) == [e |-> e, at |-> at, self |-> self, args |-> args]

\* the calls made so far of debounced and of debounced.cancel
Calls == SelectSeq(history, LAMBDA event : event.e \in {"debounced", "cancel"})

callAlways(timer) == TRUE

callNow(timer) == timer = NoCall

\* if (timeout) clearTimeout(timeout); timeout = setTimeout(later, wait, this, args)
notRestarted(timer, delay, self, args) ==
  IF timer # NoCall THEN timer ELSE [due |-> time + delay, self |-> self, args |-> args]

restarted(timer, delay, self, args) == [due |-> time + delay, self |-> self, args |-> args]

DebounceInit ==
  /\ debounced \in {[wait |-> wait, immediate |-> immediate] :
                      wait \in 1..MaxWait, immediate \in BOOLEAN}
  /\ timeout = NoCall
  /\ time = 0
  /\ history = <<>>
  /\ GeneratorIdle
  /\ LeafIdle
  /\ PageIdle

\* debounced.apply(self, args)
Debounced ==
  \E payload \in Payloads :
    /\ Len(Calls) < MaxCalls
    /\ time + debounced.wait <= MaxTime
    /\ timeout' = restarted(timeout, debounced.wait, payload.self, payload.args)
    /\ history' = history \o <<Event("debounced", time, payload.self, payload.args)>>
                    \o (IF debounced.immediate /\ callNow(timeout)
                        THEN <<Event("cb", time, payload.self, payload.args)>> ELSE <<>>)
    /\ UNCHANGED <<debounced, time, generatorVars, leafVars, pageVars>>

\* debounced.cancel()
Cancel ==
  /\ Len(Calls) < MaxCalls
  /\ timeout' = NoCall
  /\ history' = history \o <<Event("cancel", time, "", <<>>)>>
  /\ UNCHANGED <<debounced, time, generatorVars, leafVars, pageVars>>

\* the timer runs later(self, args)
Later ==
  /\ timeout # NoCall
  /\ timeout.due <= time
  /\ timeout' = NoCall
  /\ history' = history \o <<Event("later", time, timeout.self, timeout.args)>>
                  \o (IF ~debounced.immediate
                      THEN <<Event("cb", time, timeout.self, timeout.args)>> ELSE <<>>)
  /\ UNCHANGED <<debounced, time, generatorVars, leafVars, pageVars>>

\* a millisecond passes, unless a timer is due
Elapse ==
  /\ time < MaxTime
  /\ timeout # NoCall => time < timeout.due
  /\ time' = time + 1
  /\ UNCHANGED <<debounced, timeout, history, generatorVars, leafVars, pageVars>>

DebounceNext == Debounced \/ Cancel \/ Later \/ Elapse

\* time passes and a due timer runs
DebounceSpec ==
  DebounceInit /\ [][DebounceNext]_vars /\ WF_vars(Later) /\ WF_vars(Elapse)

(***************************************************************************)
(* Properties.                                                             *)
(***************************************************************************)
Parsed == interfaces # NoNode /\ ~interfaces.thrown

Called == last.t = "call"

Returned == Called /\ last.out.t = "ok"

\* the objects of the latest result
Results == IF Returned THEN last.out.result ELSE <<>>

\* the declaration the latest call generated from
Root == findRootInterface(interfaces.interfaces)

Entities(decls) == {i \in 1..Len(decls) : ~HasKey(decls[i].properties, "__value")}

\* C1: two calls with the same explicit seed and the same quantity, on the same declarations,
\* return identical results, whenever they are made and whatever was called in between
C1_Determinism ==
  (first.t = "call" /\ Called /\ last.explicit
     /\ last.seed = first.seed /\ last.quantity = first.quantity)
  => last.out = first.out

\* C2: every call with quantity n >= 1 returns a result of exactly n elements
C2_QuantityContract ==
  Called => (last.out.t = "ok" /\ Len(last.out.result) = last.quantity)

\* every name referenced by an unknown-kind node anywhere in a type tree
RECURSIVE AllReferences(_)
AllReferences(typeInfo) ==
  LET children ==
        (IF Has(typeInfo, "arrayElementType") THEN <<typeInfo.arrayElementType>> ELSE <<>>)
        \o (IF Has(typeInfo, "objectProperties")
            THEN [i \in 1..Len(typeInfo.objectProperties) |-> typeInfo.objectProperties[i].v]
            ELSE <<>>)
        \o (IF Has(typeInfo, "unionTypes") THEN typeInfo.unionTypes ELSE <<>>)
        \o (IF Has(typeInfo, "intersectionTypes") THEN typeInfo.intersectionTypes ELSE <<>>)
        \o (IF Has(typeInfo, "tupleElements")
            THEN [i \in 1..Len(typeInfo.tupleElements) |-> typeInfo.tupleElements[i].type]
            ELSE <<>>)
        \o (IF Has(typeInfo, "mapKeyType") THEN <<typeInfo.mapKeyType>> ELSE <<>>)
        \o (IF Has(typeInfo, "mapValueType") THEN <<typeInfo.mapValueType>> ELSE <<>>)
        \o (IF Has(typeInfo, "setElementType") THEN <<typeInfo.setElementType>> ELSE <<>>)
        \o (IF Has(typeInfo, "utilityTypeArgs") THEN typeInfo.utilityTypeArgs ELSE <<>>)
  IN (IF typeInfo.kind = "unknown" THEN {typeInfo.name} ELSE {})
     \cup UNION {AllReferences(children[i]) : i \in 1..Len(children)}

\* the names referenced inside the property trees of the declarations named otherwise than decls[i]
ReferencedByOthers(decls, i) ==
  UNION {UNION {AllReferences(decls[j].properties[k].v) : k \in 1..Len(decls[j].properties)} :
           j \in {j \in 1..Len(decls) : decls[j].name # decls[i].name}}

\* the root the claim describes
ClaimedRoot(decls) ==
  LET roots == {i \in Entities(decls) : decls[i].name \notin ReferencedByOthers(decls, i)}
      pick == IF roots # {} THEN roots ELSE Entities(decls)
  IN decls[CHOOSE i \in pick : \A j \in pick : i <= j]

\* C3: findRootInterface returns the first entity declaration not referenced anywhere inside
\* another declaration's property tree, and the first entity declaration when all are referenced
C3_RootSelection ==
  (Parsed /\ Entities(interfaces.interfaces) # {})
  => Root.name = ClaimedRoot(interfaces.interfaces).name

\* C4: the parser returns a declaration list for every source, cyclic aliases included
C4_ParserTotal == interfaces # NoNode => ~interfaces.thrown

\* the source whose first declaration is named name is the one in the editor
Editing(name) == Len(AllSources[code]) > 0 /\ AllSources[code][1].name = name

HasField(o, k) == HasKey(o.v, k)

Field(o, k) == Get(o.v, k)

FieldNames(o) == KeySet(o.v)

StartsWith(chars, prefix) ==
  Len(chars) >= Len(prefix) /\ SubSeq(chars, 1, Len(prefix)) = prefix

EndsWith(chars, suffix) ==
  Len(chars) >= Len(suffix) /\ SubSeq(chars, Len(chars) - Len(suffix) + 1, Len(chars)) = suffix

\* a decimal numeral of a whole number within min..max
IsNumeral(chars, min, max) ==
  /\ Len(chars) > 0
  /\ \A i \in 1..Len(chars) : \E k \in 1..10 : Digits[k] = chars[i]
  /\ NumberOfChars(chars) \in min..max
  /\ DigitsOf(NumberOfChars(chars)) = chars

\* a string value produced by the faker generator strategy
IsText(value, strategy) ==
  /\ value.t = "str"
  /\ StartsWith(value.v, Spell(strategy) \o <<"-">>)
  /\ IsNumeral(SubSeq(value.v, Len(Spell(strategy)) + 2, Len(value.v)), 0, 29)

\* a whole number value within min..max
IsInt(value, min, max) ==
  value.t = "num" /\ ~Has(value, "fractionDigits") /\ value.v \in min..max

\* strict equality of two primitive values
Same(a, b) == a.t = b.t /\ a.v = b.v

OneOf(value, values) == \E i \in 1..Len(values) : Same(value, values[i])

SameValues(as, bs) == Len(as) = Len(bs) /\ \A i \in 1..Len(as) : Same(as[i], bs[i])

RecordFields == {"map", "one", "dict", "lookup", "flags"}

IsValueOf(field, value) == IF field = "flags" THEN value.t = "bool" ELSE value.t = "num"

\* every Record-shaped property of every generated Config has lo..hi keys and values of V
RecordSizes(lo, hi) ==
  (Editing("Config") /\ Called)
  => /\ last.out.t = "ok"
     /\ \A i \in 1..Len(Results) : \A f \in RecordFields :
          LET rec == Field(Results[i], f)
          IN /\ rec.t = "obj"
             /\ Len(rec.v) \in lo..hi
             /\ \A j \in 1..Len(rec.v) : IsValueOf(f, rec.v[j].v)

\* C5 as stated: a generated Record, index-signature or Map value has between 2 and 5 keys
\* and every value is a value of V
C5_RecordSizeBound == RecordSizes(2, 5)

\* C5 amended: a generated Record, index-signature or Map value has between 1 and 5 keys (2 to 5
\* slots are generated, and slots whose keys collide overwrite one another) and every value is a
\* value of V
C5_RecordSizeAmended == RecordSizes(1, 5)

\* a Config whose Record<'a', number> has one key, while another record has five
C5_Witness ==
  /\ Editing("Config") /\ Returned
  /\ \E i \in 1..Len(Results) :
       /\ Len(Field(Results[i], "one").v) = 1
       /\ \E f \in RecordFields : Len(Field(Results[i], f).v) = 5

\* C6: a property typed by a name with no declaration is generated as null, the call returns,
\* and the other properties are generated as usual
C6_UnresolvedSymbol ==
  (Editing("Order") /\ Called)
  => /\ last.out.t = "ok"
     /\ Len(Results) = last.quantity
     /\ \A i \in 1..Len(Results) :
          LET o == Results[i]
          IN /\ o.t = "obj"
             /\ {"id", "customer", "total"} \subseteq FieldNames(o)
             /\ FieldNames(o) \subseteq {"id", "customer", "total", "note"}
             /\ Field(o, "customer") = Null
             /\ IsText(Field(o, "id"), "string.uuid")
             /\ IsInt(Field(o, "total"), 1, 1000)
             /\ HasField(o, "note") => IsText(Field(o, "note"), "lorem.word")

\* an Order generated with a null customer next to its id, total and note
C6_Witness ==
  /\ Editing("Order") /\ Returned
  /\ Get(Root.properties, "customer").kind = "unknown"
  /\ \E i \in 1..Len(Results) :
       Field(Results[i], "customer") = Null /\ HasField(Results[i], "note")

\* the Pick/Omit properties of View and the key set each pair is given
ViewPairs ==
  << [pick |-> "a", omit |-> "b", K |-> {"x"}],
     [pick |-> "c", omit |-> "d", K |-> {"x", "y"}],
     [pick |-> "e", omit |-> "f", K |-> {"y", "z", "w"}],
     [pick |-> "g", omit |-> "h", K |-> {"x", "z"}],
     [pick |-> "i", omit |-> "j", K |-> {"z"}],
     [pick |-> "k", omit |-> "l", K |-> {"x", "y", "z", "w"}],
     [pick |-> "m", omit |-> "n", K |-> {"x", "z"}] >>

\* the parsed properties of the declaration named name
PropertiesOf(name) == interfaces.interfaces[find(interfaces.interfaces, name)].properties

\* P: the properties of the declaration named name
PropertyNames(name) ==
  KeySet(interfaces.interfaces[find(interfaces.interfaces, name)].properties)

\* C7: Pick<E, K> generates exactly the keys P \cap K and Omit<E, K> exactly P \ K, for K a
\* literal, a literal union, a union with alias references and an alias reference; the two key
\* sets are disjoint and together make P
C7_PickOmitComplement ==
  (Editing("View") /\ Called)
  => /\ last.out.t = "ok"
     /\ \A i \in 1..Len(Results) : \A p \in 1..Len(ViewPairs) :
          LET P == PropertyNames("Entity")
              picked == FieldNames(Field(Results[i], ViewPairs[p].pick))
              omitted == FieldNames(Field(Results[i], ViewPairs[p].omit))
          IN /\ picked = P \cap ViewPairs[p].K
             /\ omitted = P \ ViewPairs[p].K
             /\ picked \cap omitted = {}
             /\ picked \cup omitted = P

\* a View whose Pick<Entity, Keys> has the keys y and z and whose Omit<Entity, Zed> has x and y
C7_Witness ==
  /\ Editing("View") /\ Returned
  /\ PropertyNames("Entity") = {"x", "y", "z"}
  /\ \E i \in 1..Len(Results) :
       /\ FieldNames(Field(Results[i], "e")) = {"y", "z"}
       /\ FieldNames(Field(Results[i], "f")) = {"x"}
       /\ FieldNames(Field(Results[i], "j")) = {"x", "y"}
       /\ FieldNames(Field(Results[i], "l")) = {}
       /\ FieldNames(Field(Results[i], "n")) = {"y"}

\* the literal unions of Task and of Reading, in source order
LiteralUnions ==
  [Task |-> [status |-> <<Str(Spell("todo")), Str(Spell("doing")), Str(Spell("done"))>>,
             priority |-> <<Num(3), Num(2), Num(1)>>,
             done |-> <<Bool(TRUE), Bool(FALSE)>>,
             size |-> <<Num(1), Str(Spell("one"))>>],
   Reading |-> [delta |-> <<Num(0 - 1), Num(1)>>]]

TagValues == <<Str(Spell("a")), Str(Spell("b"))>>

\* C8: a union of literals is parsed to kind enum with exactly its literals in source order,
\* and every value generated for it is one of them
C8_EnumClosure ==
  \A name \in DOMAIN LiteralUnions :
    (Editing(name) /\ Parsed)
    => /\ \A f \in DOMAIN LiteralUnions[name] :
            /\ Get(Root.properties, f).kind = "enum"
            /\ SameValues(Get(Root.properties, f).enumValues, LiteralUnions[name][f])
       /\ Editing("Task")
          => /\ Get(Root.properties, "tags").arrayElementType.kind = "enum"
             /\ SameValues(Get(Root.properties, "tags").arrayElementType.enumValues, TagValues)
       /\ Called
          => /\ last.out.t = "ok"
             /\ \A i \in 1..Len(Results) :
                  /\ \A f \in DOMAIN LiteralUnions[name] :
                       OneOf(Field(Results[i], f), LiteralUnions[name][f])
                  /\ Editing("Task")
                     => \A j \in 1..Len(Field(Results[i], "tags").v) :
                          OneOf(Field(Results[i], "tags").v[j], TagValues)

\* C9: a tuple of k elements generates exactly k values in declaration order, the i-th from the
\* i-th element type, hinted by the element's own name, else by the outer field name
C9_TupleShape ==
  (Editing("Data") /\ Called)
  => /\ last.out.t = "ok"
     /\ \A i \in 1..Len(Results) :
          LET pair == Field(Results[i], "pair")
              age == Field(Results[i], "age")
              named == Field(Results[i], "named")
              solo == Field(Results[i], "solo")
          IN /\ pair.t = "arr" /\ Len(pair.v) = 2
             /\ IsText(pair.v[1], "lorem.word") /\ IsInt(pair.v[2], 1, 1000)
             /\ age.t = "arr" /\ Len(age.v) = 2
             /\ IsInt(age.v[1], 18, 80) /\ age.v[2].t = "bool"
             /\ named.t = "arr" /\ Len(named.v) = 3
             /\ IsText(named.v[1], "internet.email")
             /\ IsInt(named.v[2], 1900, 2024)
             /\ IsText(named.v[3], "lorem.word")
             /\ solo.t = "arr" /\ Len(solo.v) = 1
             /\ OneOf(solo.v[1], <<Num(1), Num(2), Num(3)>>)

\* a Data whose named tuple was generated from the hints email, year and label
C9_Witness ==
  /\ Editing("Data") /\ Returned
  /\ Get(Root.properties, "named").tupleElements[2].name = "year"
  /\ \E i \in 1..Len(Results) :
       /\ IsText(Field(Results[i], "named").v[1], "internet.email")
       /\ IsInt(Field(Results[i], "named").v[2], 1900, 2024)
       /\ Len(Field(Results[i], "pair").v) = 2

Categories == {"ELEC", "FURN", "CLTH"}

Sizes == {"SM", "MD", "LG"}

\* <CategoryValue>-<digits>-<SizeValue>
IsSku(chars) ==
  \E c \in Categories, s \in Sizes :
    /\ Len(chars) >= Len(Spell(c)) + Len(Spell(s)) + 3
    /\ StartsWith(chars, Spell(c) \o <<"-">>)
    /\ EndsWith(chars, <<"-">> \o Spell(s))
    /\ IsNumeral(SubSeq(chars, Len(Spell(c)) + 2, Len(chars) - Len(Spell(s)) - 1), 1, 1000)

\* #<digits>/null
IsCode(chars) ==
  /\ Len(chars) >= 7
  /\ StartsWith(chars, <<"#">>)
  /\ EndsWith(chars, <<"/">> \o Spell("null"))
  /\ IsNumeral(SubSeq(chars, 2, Len(chars) - 5), 1, 1000)

\* <age>y <email>
IsAge(chars) ==
  /\ Len(chars) > 4
  /\ IsNumeral(SubSeq(chars, 1, 2), 18, 80)
  /\ SubSeq(chars, 3, 4) = <<"y", " ">>
  /\ IsText(Str(SubSeq(chars, 5, Len(chars))), "internet.email")

\* <email>/<boolean>
IsEmail(chars) ==
  \E b \in {"true", "false"} :
    /\ Len(chars) > Len(Spell(b)) + 1
    /\ EndsWith(chars, <<"/">> \o Spell(b))
    /\ IsText(Str(SubSeq(chars, 1, Len(chars) - Len(Spell(b)) - 1)), "internet.email")

\* C10: every ${name} placeholder of a template is replaced by a generated value and the text
\* between placeholders is kept; number, string and boolean placeholders (in any case) are
\* primitives hinted by the field name, the others are looked up in the declarations and hinted
\* by their own name
C10_TemplateResolution ==
  (Editing("Product") /\ Called)
  => /\ last.out.t = "ok"
     /\ \A i \in 1..Len(Results) :
          /\ Field(Results[i], "sku").t = "str" /\ IsSku(Field(Results[i], "sku").v)
          /\ Field(Results[i], "code").t = "str" /\ IsCode(Field(Results[i], "code").v)
          /\ Field(Results[i], "age").t = "str" /\ IsAge(Field(Results[i], "age").v)
          /\ Field(Results[i], "email").t = "str" /\ IsEmail(Field(Results[i], "email").v)

\* a Product with a sku of the three parts, generated from the template of the declaration
C10_Witness ==
  /\ Editing("Product") /\ Returned
  /\ Get(Root.properties, "sku").kind = "template"
  /\ Get(Root.properties, "sku").templatePattern = Backquoted("${Category}-${number}-${Size}")
  /\ \E i \in 1..Len(Results) :
       /\ IsSku(Field(Results[i], "sku").v)
       /\ IsAge(Field(Results[i], "age").v)
       /\ IsEmail(Field(Results[i], "email").v)

\* structural equality of two generated values
RECURSIVE Equal(_, _)
Equal(a, b) ==
  /\ a.t = b.t
  /\ CASE a.t = "null" -> TRUE
       [] a.t = "arr" -> /\ Len(a.v) = Len(b.v)
                         /\ \A i \in 1..Len(a.v) : Equal(a.v[i], b.v[i])
       [] a.t = "obj" -> /\ Len(a.v) = Len(b.v)
                         /\ \A i \in 1..Len(a.v) : a.v[i].k = b.v[i].k /\ Equal(a.v[i].v, b.v[i].v)
       [] OTHER -> a = b

\* the stream after k draws
RECURSIVE Advance(_, _)
Advance(fk, k) == IF k = 0 THEN fk ELSE NextRng(Advance(fk, k - 1))

\* the stream seeded with the seed of the latest call, as its k-th draw finds it
Draw(k) == Advance(fakerSeed(last.seed, 0), k - 1)

\* the key/value slots of Sample.rec drawn after draw p: a key, then its value
RECURSIVE Slots(_, _)
Slots(p, n) ==
  IF n = 0 THEN <<>>
  ELSE Put(Slots(p, n - 1), Join(fakerText(Draw(p + (2 * n) - 1), "lorem.word").v.v),
           Num(numberInt(Draw(p + (2 * n)), 1, 1000).v))

\* the Sample whose random decisions are the draws p, p + 1, ... of the stream, one draw per
\* decision in the order the properties are declared, and the draw that follows them
SampleFrom(p) ==
  LET id == fakerText(Draw(p), "string.uuid").v
      skipped == fakerNumberFloat(Draw(p + 1)).v < 9
      note == fakerText(Draw(p + 2), "lorem.word").v
      p2 == IF skipped THEN p + 2 ELSE p + 3
      length == numberInt(Draw(p2), 1, 5).v
      tags == [i \in 1..length |-> fakerText(Draw(p2 + i), "lorem.word").v]
      p3 == p2 + 1 + length
      role == arrayElement(Draw(p3), <<Str(<<"a">>), Str(<<"b">>)>>).v
      which == arrayElement(Draw(p3 + 1), <<1, 2>>).v
      mixed == IF which = 1 THEN Str(<<"x">>) ELSE Num(numberInt(Draw(p3 + 2), 1, 1000).v)
      p4 == IF which = 1 THEN p3 + 2 ELSE p3 + 3
      size == numberInt(Draw(p4), 2, 5).v
      bag == [i \in 1..size |-> Bool(numberInt(Draw(p4 + i), 0, 1).v = 1)]
      p5 == p4 + 1 + size
      slots == numberInt(Draw(p5), 2, 5).v
      head == <<[k |-> "id", v |-> id]>>
      optional == IF skipped THEN <<>> ELSE <<[k |-> "note", v |-> note]>>
      rest == << [k |-> "tags", v |-> Array(tags)], [k |-> "role", v |-> role],
                 [k |-> "mixed", v |-> mixed], [k |-> "bag", v |-> Array(bag)],
                 [k |-> "rec", v |-> Object(Slots(p5, slots))] >>
  IN [value |-> Object(head \o optional \o rest), next |-> p5 + 1 + (2 * slots)]

\* the draw the n-th Sample of a result starts at
RECURSIVE StartOf(_)
StartOf(n) == IF n = 1 THEN 1 ELSE SampleFrom(StartOf(n - 1)).next

\* C11: the seed a call returns is the seed the call was made with (the user's, or the one
\* chosen for the call); the stream is seeded with it before the first draw, and every random
\* decision of the call (optional skip, array, set and record sizes, enum and union choices,
\* primitive leaves) is the next draw of that stream, so that the result is the replay of the
\* stream and the stream is left where the last decision left it
C11_SeedAndStream ==
  Called =>
    /\ last.out.t = "ok" => last.out.seed = last.seed
    /\ Editing("Sample") =>
         /\ last.out.t = "ok"
         /\ Len(Results) = last.quantity
         /\ \A i \in 1..Len(Results) : Equal(Results[i], SampleFrom(StartOf(i)).value)
         /\ faker.s = Draw(StartOf(last.quantity + 1)).s

\* two Samples generated from a seed the call chose itself, the first with its optional note
\* and the second without, the second starting where the first ended
C11_Witness ==
  /\ Editing("Sample") /\ Returned /\ ~last.explicit
  /\ Len(Results) = 2
  /\ StartOf(2) > 10
  /\ \E i \in 1..2 : HasField(Results[i], "note")

\* the name a primitive leaf is generated from, by the claim: the type hint if the node has one
HintOf(propName, typeInfo) ==
  IF Has(typeInfo, "typeHint") /\ typeInfo.typeHint # NoHint THEN typeInfo.typeHint ELSE propName

\* the string properties of the root declaration
StringProperties == {i \in 1..Len(Root.properties) : Root.properties[i].v.kind = "string"}

\* C12: a primitive leaf is generated by the strategy of its typeHint when it has one and by the
\* strategy of its property name only when it has none, and a property declared with a reference
\* to a type alias carries the alias name as typeHint
C12_HintPriority ==
  /\ (Returned /\ Len(Results) > 0) =>
       \A r \in 1..Len(Results) : \A i \in StringProperties :
         LET p == Root.properties[i]
         IN HasField(Results[r], p.k) =>
              IsText(Field(Results[r], p.k),
                     stringStrategy(toLowerCaseChars(Spell(HintOf(p.k, p.v)))))
  /\ (Editing("Member") /\ Parsed) =>
       /\ Get(Root.properties, "name").kind = "string"
       /\ Get(Root.properties, "name").typeHint = "First"
       /\ Get(Root.properties, "email").typeHint = "Handle"
       /\ Get(Root.properties, "age").kind = "number"
       /\ Get(Root.properties, "age").typeHint = "Year"
       /\ Get(Root.properties, "level").typeHint = "Age"
       /\ Get(Root.properties, "year").typeHint = NoHint
       /\ Get(Root.properties, "title").typeHint = NoHint
  /\ (Editing("Member") /\ Called) =>
       /\ last.out.t = "ok"
       /\ \A r \in 1..Len(Results) :
            /\ IsText(Field(Results[r], "name"), "person.firstName")
            /\ IsText(Field(Results[r], "email"), "lorem.word")
            /\ IsInt(Field(Results[r], "age"), 1900, 2024)
            /\ IsInt(Field(Results[r], "level"), 18, 80)
            /\ IsInt(Field(Results[r], "year"), 1900, 2024)
            /\ IsText(Field(Results[r], "title"), "person.jobTitle")

\* a Member whose name is a first name (hint First, not the field name) and whose email is a
\* plain word (hint Handle), next to a title generated from its field name
C12_Witness ==
  /\ Editing("Member") /\ Returned /\ Len(Results) = 2
  /\ Get(Root.properties, "name").typeHint = "First"
  /\ IsText(Field(Results[2], "name"), "person.firstName")
  /\ IsText(Field(Results[2], "email"), "lorem.word")
  /\ IsText(Field(Results[2], "title"), "person.jobTitle")

\* C17: the array generated for a Set<T> property holds no two equal elements
C17_SetUnique ==
  (Editing("Sample") /\ Returned) =>
    \A r \in 1..Len(Results) :
      LET bag == Field(Results[r], "bag").v
      IN \A i, j \in 1..Len(bag) : i # j => ~Same(bag[i], bag[j])

\* the leaf has been generated
Generated == leaf # NoCall /\ leaf.value # NoCall

\* the lowercased hint of the leaf
LeafHint == toLowerCaseChars(Spell(HintOf(leaf.fieldName, leaf.typeInfo)))

IsProperSubstring(a, b) == Len(a) < Len(b) /\ includes(b, a)

\* the first entry of the table, in declared order, one of whose keywords the name contains
FirstKeyword(table, lowered) ==
  LET hits == {i \in 1..Len(table) :
                 \E k \in 1..Len(table[i].terms) : includes(lowered, Spell(table[i].terms[k]))}
  IN IF hits = {} THEN 0 ELSE CHOOSE i \in hits : \A j \in hits : i <= j

\* where a keyword is a proper substring of a keyword of another strategy, the longer one's
\* entry comes first
LongerKeywordFirst(table) ==
  \A i, j \in 1..Len(table) :
    \A x \in 1..Len(table[i].terms), y \in 1..Len(table[j].terms) :
      (/\ IsProperSubstring(Spell(table[i].terms[x]), Spell(table[j].terms[y]))
       /\ table[i].strategy # table[j].strategy) => j < i

StringKeywordsOrdered == LongerKeywordFirst(stringStrategies)

\* C14: a string leaf is generated by the strategy of the first table entry, in declared order,
\* one of whose keywords its lowercased hint contains, and by the generic word strategy when
\* there is none; a keyword that is a proper substring of a keyword of another strategy comes
\* after it in the table, and a hint containing username never yields a full person name
C14_TableOrder ==
  /\ StringKeywordsOrdered
  /\ (Generated /\ leaf.typeInfo.kind = "string") =>
       LET i == FirstKeyword(stringStrategies, LeafHint)
       IN /\ IsText(leaf.value, IF i = 0 THEN "lorem.word" ELSE stringStrategies[i].strategy)
          /\ includes(LeafHint, Spell("username")) => ~IsText(leaf.value, "person.fullName")

\* a leaf named userName, containing both username and name, generated as a username
C14_Witness ==
  /\ Generated /\ leaf.typeInfo.kind = "string"
  /\ leaf.fieldName = "userName" /\ leaf.typeInfo.typeHint = NoHint
  /\ IsText(leaf.value, "internet.username")

\* the leaf is a string field without type hint whose name includes id or uuid
IdField ==
  /\ Generated /\ leaf.typeInfo.kind = "string" /\ leaf.typeInfo.typeHint = NoHint
  /\ \/ includes(toLowerCaseChars(Spell(leaf.fieldName)), Spell("id"))
     \/ includes(toLowerCaseChars(Spell(leaf.fieldName)), Spell("uuid"))

\* the keywords generateStringValue tests before uuid and id
EarlierKeywords ==
  {"email", "username", "user", "password", "phone", "url", "website", "avatar", "image",
   "color", "country", "city", "street", "address", "zipcode", "zip", "postal", "state",
   "province", "company", "organization", "org", "job", "title", "position", "description",
   "bio", "firstname", "first", "lastname", "last", "name"}

C16_AgeRange ==
  (Generated /\ leaf.typeInfo.kind = "number" /\ includes(LeafHint, Spell("age")))
  => IsInt(leaf.value, 18, 80)

\* a number leaf named storageYear, containing both age and year, generated within 18..80
C16_Witness ==
  /\ Generated /\ leaf.typeInfo.kind = "number"
  /\ leaf.fieldName = "storageYear" /\ leaf.typeInfo.typeHint = NoHint
  /\ IsInt(leaf.value, 18, 80)

\* the latest run of the handler went through to the end of generation
RunGenerated == run.t = "run" /\ run.parsed.declared /\ run.mockData.t = "ok"

\* C13: validation is advisory.  After a run of handleGenerateMock in which validateTypeScript
\* reported valid = false, the parser has run, the generator has run whenever the parser gave
\* at least one declaration, and whenever generation did not throw the output is the generated
\* data as JSON text; after an auto-triggered run the error is never the validation report.
C13_AdvisoryValidation ==
  run.t = "run" =>
    /\ ~run.validation.valid =>
         /\ page.hasValidationWarning
         /\ run.parsed.declared => run.mockData # NoCall
         /\ RunGenerated => /\ page.output = JSONstringify(Array(run.mockData.result), 0)
                          /\ Len(run.mockData.result) = page.quantity
                          /\ page.output # <<>>
    /\ ~run.isManual => page.error.text # "TypeScript parsing errors:"

\* an auto-triggered run on a text with a diagnostic that is reported: the data is shown, the
\* warning is set and no error is shown
C13_Witness ==
  /\ RunGenerated
  /\ ~run.validation.valid
  /\ ~run.isManual
  /\ page.hasValidationWarning
  /\ page.error = NoError
  /\ page.output = JSONstringify(Array(run.mockData.result), 0)

\* C18: seed history.  The recent-seeds list holds the (up to) three distinct seeds the
\* generations used most recently, the newest first; it never has more than 3 entries and
\* never holds a seed twice.
C18_SeedHistory ==
  page # NoCall =>
    /\ page.recentSeeds = run.used
    /\ Len(page.recentSeeds) <= 3
    /\ \A i, j \in 1..Len(page.recentSeeds) : i # j => page.recentSeeds[i] # page.recentSeeds[j]

\* the positions of history
Events == 1..Len(history)

IsCall(i) == history[i].e = "debounced"

\* the latest call of debounced before position i, 0 when there is none
LastCallBefore(i) ==
  LET earlier == {j \in 1..(i - 1) : IsCall(j)}
  IN IF earlier = {} THEN 0 ELSE CHOOSE j \in earlier : \A k \in earlier : k <= j

\* the event at position i carries the this and the arguments of the call at position j
SamePayload(i, j) == history[i].self = history[j].self /\ history[i].args = history[j].args

\* an event of the given kinds lies strictly between positions j and i
Between(j, i, kinds) == \E k \in (j + 1)..(i - 1) : history[k].e \in kinds

\* the callback was invoked inside the call at position i
InvokedOn(i) ==
  /\ i < Len(history)
  /\ history[i + 1].e = "cb"
  /\ history[i + 1].at = history[i].at
  /\ SamePayload(i + 1, i)

TrailingMode == debounced # NoCall /\ ~debounced.immediate

ImmediateMode == debounced # NoCall /\ debounced.immediate

\* every invocation of the callback comes wait ms after the latest call before it, with that
\* call's this and arguments, and between that call and the invocation there is no other call,
\* no cancel and no other invocation
TrailingInvocations ==
  \A i \in Events :
    history[i].e = "cb" =>
      LET j == LastCallBefore(i)
      IN /\ j > 0
         /\ history[i].at = history[j].at + debounced.wait
         /\ SamePayload(i, j)
         /\ ~Between(j, i, {"cancel", "cb"})

\* the latest thing that happened is a call of debounced that has had no answer yet
Waiting == Len(history) > 0 /\ history[Len(history)].e = "debounced"

\* the latest thing that happened is an invocation of the callback or a cancel
Answered == Len(history) > 0 /\ history[Len(history)].e \in {"cb", "cancel"}

\* C19: debounce, trailing mode.  The callback is invoked only wait ms after the latest call,
\* with the this and the arguments of that call, once, and not when a cancel came in between;
\* while calls arrive less than wait ms apart it is not invoked; and once a call is made, a
\* later call, a cancel or the invocation of the callback follows.
C19_TrailingEdge ==
  /\ [](TrailingMode => TrailingInvocations)
  /\ ((TrailingMode /\ Waiting) ~> Answered)

\* two calls less than wait ms apart with different arguments, answered by one invocation
\* that carries the arguments of the second
C19_Witness ==
  /\ TrailingMode
  /\ \E i, j, k \in Events :
       /\ i < j /\ j < k
       /\ IsCall(i) /\ IsCall(j) /\ history[k].e = "cb"
       /\ history[j].at - history[i].at < debounced.wait
       /\ history[j].at > history[i].at
       /\ ~SamePayload(i, j)
       /\ SamePayload(k, j)
       /\ ~Between(i, k, {"cb"})

\* C20: debounce, immediate mode.  A call invokes the callback, inside the call, if and only if
\* no timer is pending: it is the first call, or the timer has run out (at least wait ms after
\* the call before), or cancel was called since the call before; a call less than wait ms after
\* the call before, with no cancel in between, does not invoke it.  The callback is invoked
\* nowhere but inside a call, and the pending timer is always due wait ms after the latest call.
C20_LeadingEdge ==
  ImmediateMode =>
    /\ \A i \in Events :
         IsCall(i) =>
           LET j == LastCallBefore(i)
               elapsed == history[i].at - history[j].at
           IN /\ InvokedOn(i) <=> (j = 0 \/ Between(j, i, {"cancel", "later"}))
              /\ (j > 0 /\ Between(j, i, {"later"})) => elapsed >= debounced.wait
              /\ (j > 0 /\ elapsed > debounced.wait) => InvokedOn(i)
              /\ (j > 0 /\ elapsed < debounced.wait /\ ~Between(j, i, {"cancel"})) => ~InvokedOn(i)
    /\ \A i \in Events : history[i].e = "cb" => i > 1 /\ IsCall(i - 1) /\ InvokedOn(i - 1)
    /\ timeout # NoCall =>
         LET j == LastCallBefore(Len(history) + 1)
         IN j > 0 /\ timeout.due = history[j].at + debounced.wait

\* a call that invokes the callback, a call during the cooldown that does not and puts the
\* end of the cooldown off, and a call after the cooldown that invokes it again
C20_Witness ==
  /\ ImmediateMode
  /\ \E i, j, k \in Events :
       /\ i < j /\ j < k
       /\ IsCall(i) /\ IsCall(j) /\ IsCall(k)
       /\ InvokedOn(i) /\ ~InvokedOn(j) /\ InvokedOn(k)
       /\ history[j].at > history[i].at
       /\ history[k].at - history[i].at > debounced.wait
       /\ ~Between(i, k, {"cancel"})

\* a value of faker.date.recent().toISOString()
IsDate(value) == value.t = "str" /\ StartsWith(value.v, Spell("date-"))

\* every element of an array, or every value of an object, is a date
AllDates(value) ==
  CASE value.t = "arr" -> \A j \in 1..Len(value.v) : IsDate(value.v[j])
    [] value.t = "obj" -> \A j \in 1..Len(value.v) : IsDate(value.v[j].v)
    [] OTHER -> FALSE

\* C21: every Date-typed position (property type, array element, tuple element, argument of
\* Map, Set, Readonly and Record, index-signature value) is generated as a date value, never
\* as null
C21_DateEverywhere ==
  (Editing("Log") /\ Called)
  => /\ last.out.t = "ok"
     /\ \A i \in 1..Len(Results) :
          LET o == Results[i]
          IN /\ IsDate(Field(o, "at"))
             /\ AllDates(Field(o, "seen"))
             /\ AllDates(Field(o, "list"))
             /\ IsDate(Field(o, "pair").v[1])
             /\ AllDates(Field(o, "byDay"))
             /\ AllDates(Field(o, "days"))
             /\ IsDate(Field(o, "ro"))
             /\ AllDates(Field(o, "rec"))
             /\ AllDates(Field(o, "idx"))

\* the positions in which a Date is generated as a date: property type and both array forms
C21_DirectPositions ==
  (Editing("Log") /\ Called)
  => /\ last.out.t = "ok"
     /\ \A i \in 1..Len(Results) :
          LET o == Results[i]
          IN /\ IsDate(Field(o, "at"))
             /\ AllDates(Field(o, "seen"))
             /\ AllDates(Field(o, "list"))

\* the positions in which a Date is generated as null: tuple element, argument of Map, Set,
\* Readonly and Record, and index-signature value
C21_ArgumentPositions ==
  (Editing("Log") /\ Called)
  => \A i \in 1..Len(Results) :
       LET o == Results[i]
           nulls(value) == Len(value.v) > 0 /\ \A j \in 1..Len(value.v) :
                             (IF value.t = "obj" THEN value.v[j].v ELSE value.v[j]) = Null
       IN /\ Field(o, "pair").v[1] = Null
          /\ nulls(Field(o, "byDay")) /\ nulls(Field(o, "days"))
          /\ Field(o, "ro") = Null
          /\ nulls(Field(o, "rec")) /\ nulls(Field(o, "idx"))

\* the names the source declares as type aliases
AliasNames ==
  {AllSources[code][i].name :
     i \in {j \in 1..Len(AllSources[code]) : AllSources[code][j].kind = "TypeAliasDeclaration"}}

\* the parsed type arguments of a generic node, in source order
ArgumentsOf(typeInfo) ==
  CASE typeInfo.kind = "array" ->
         IF Has(typeInfo, "arrayElementType") THEN <<typeInfo.arrayElementType>> ELSE <<>>
    [] typeInfo.kind = "map" ->
         (IF Has(typeInfo, "mapKeyType") THEN <<typeInfo.mapKeyType>> ELSE <<>>)
         \o (IF Has(typeInfo, "mapValueType") THEN <<typeInfo.mapValueType>> ELSE <<>>)
    [] typeInfo.kind = "set" ->
         IF Has(typeInfo, "setElementType") THEN <<typeInfo.setElementType>> ELSE <<>>
    [] typeInfo.kind = "utility" -> typeInfo.utilityTypeArgs
    [] OTHER -> <<>>

\* in every property typed by one of the generics, an argument that is a reference to an alias
\* name is parsed to {name, kind: 'unknown'} with the alias name
NamePreserved(generics) ==
  Parsed =>
    \A s \in 1..Len(AllSources[code]) :
      LET statement == AllSources[code][s]
          at == find(interfaces.interfaces, statement.name)
      IN (statement.kind = "InterfaceDeclaration" /\ at # 0) =>
           \A p \in 1..Len(statement.members) :
             LET member == statement.members[p]
             IN (/\ member.kind = "PropertySignature"
                 /\ member.type.kind = "TypeReference"
                 /\ member.type.typeName \in generics) =>
                  LET typeInfo == Get(interfaces.interfaces[at].properties, member.name)
                      typeArgs == ArgumentsOf(typeInfo)
                  IN \A i \in 1..Len(member.type.typeArguments) :
                       LET arg == member.type.typeArguments[i]
                       IN (arg.kind = "TypeReference" /\ arg.typeName \in AliasNames) =>
                            /\ i <= Len(typeArgs)
                            /\ typeArgs[i] = [name |-> arg.typeName, kind |-> "unknown"]

\* C22: in the type arguments of Array<T>, Map<K, V>, Set<T> and of every utility type, a
\* reference to an alias name is kept as {name, kind: 'unknown'} with the alias name; the alias
\* body is never substituted
C22_NamePreserving == NamePreserved({"Array", "Map", "Set"} \cup utilityTypes)

\* C22, amended: in the type arguments of Map<K, V>, Set<T> and of every utility type a
\* reference to an alias name is kept as {name, kind: 'unknown'}; the argument of Array<T> is
\* resolved like a property type, so the alias body stands in its place
C22_NamePreservingAmended ==
  /\ NamePreserved({"Map", "Set"} \cup utilityTypes)
  /\ (Editing("Roster") /\ Parsed)
     => Get(Root.properties, "list").arrayElementType = [name |-> "string", kind |-> "string"]

\* the Roster parsed: Map<First, Age>, Set<First> and Record<First, Age> keep the names First
\* and Age, Array<First> has the element type string
C22_Witness ==
  /\ Editing("Roster") /\ Parsed
  /\ Get(Root.properties, "byName").mapKeyType = [name |-> "First", kind |-> "unknown"]
  /\ Get(Root.properties, "byName").mapValueType = [name |-> "Age", kind |-> "unknown"]
  /\ Get(Root.properties, "seen").setElementType = [name |-> "First", kind |-> "unknown"]
  /\ Get(Root.properties, "rec").utilityTypeArgs[1] = [name |-> "First", kind |-> "unknown"]
  /\ Get(Root.properties, "list").arrayElementType.kind = "string"

\* the entities a declaration refers to directly in a required property
RequiredReferences(decls, i) ==
  {j \in Entities(decls) :
     \E p \in 1..Len(decls[i].properties) :
       LET typeInfo == decls[i].properties[p].v
       IN /\ ~typeInfo.isOptional
          /\ typeInfo.kind = "unknown"
          /\ find(decls, typeInfo.name) = j}

\* the entities reached from a set of entities along at most n required references
RECURSIVE Reach(_, _, _)
Reach(decls, from, n) ==
  IF n = 0 THEN from
  ELSE LET prev == Reach(decls, from, n - 1)
       IN prev \cup UNION {RequiredReferences(decls, i) : i \in prev}

\* the entities that reach themselves through a chain of required entity references
CyclicEntities(decls) ==
  {i \in Entities(decls) : i \in Reach(decls, RequiredReferences(decls, i), Len(decls))}

\* some entity of the declarations reaches itself through required references
HasRequiredCycle == Parsed /\ CyclicEntities(interfaces.interfaces) # {}

\* the entity generateMockData builds from reaches, through required references, an entity that
\* reaches itself through required references
EntersRequiredCycle ==
  /\ Parsed
  /\ Entities(interfaces.interfaces) # {}
  /\ Reach(interfaces.interfaces, {find(interfaces.interfaces, Root.name)},
           Len(interfaces.interfaces)) \cap CyclicEntities(interfaces.interfaces) # {}

\* the call ended in the RangeError of the exhausted call stack
Overflowed == Called /\ last.out.t = "throw" /\ last.out.v = "RangeError"

\* among the outcomes of the declarations, one that returned a first record in which the
\* named property holds an object
CanReturnNested(name) ==
  \E c \in DOMAIN outcomes :
    /\ outcomes[c].t = "ok"
    /\ HasField(outcomes[c].result[1], name)
    /\ Field(outcomes[c].result[1], name).t = "obj"

\* a cycle through a union (Chain) or through optional properties (Husband, Wife) can be
\* followed and still end
CyclesThatEnd ==
  /\ (Parsed /\ Editing("Chain")) => CanReturnNested("next")
  /\ (Parsed /\ Editing("Husband")) => CanReturnNested("wife")

\* C23: on declarations in which an entity reaches itself through a chain of required entity
\* references no call returns a value and none falls back to null; a cycle through an optional
\* property or a union can still end
C23_NoCycleBreaking ==
  /\ (HasRequiredCycle /\ Called) => Overflowed
  /\ CyclesThatEnd

\* C23, amended: when the entity the records are built from reaches such a cycle through
\* required entity references, no call of a quantity of at least 1 returns a value and none
\* falls back to null; a cycle through an optional property or a union can still end
C23_NoCycleBreakingAmended ==
  /\ (EntersRequiredCycle /\ Called /\ last.quantity >= 1) => Overflowed
  /\ CyclesThatEnd

\* a call on Ring, whose property next leads to Link and back, ended in the RangeError
C23_Witness ==
  /\ Editing("Ring") /\ EntersRequiredCycle
  /\ Overflowed

\* the properties present in a Person object are generated from their declared types
PersonValues(o) ==
  /\ o.t = "obj"
  /\ FieldNames(o) \subseteq {"name", "nick", "age"}
  /\ HasField(o, "name") => IsText(Field(o, "name"), "person.fullName")
  /\ HasField(o, "nick") => IsText(Field(o, "nick"), "lorem.word")
  /\ HasField(o, "age") => IsInt(Field(o, "age"), 18, 80)

\* among the outcomes of the declarations, one with a record whose object o(record) is
\* without the property name
CanOmit(o(_), name) ==
  \E c \in DOMAIN outcomes :
    /\ outcomes[c].t = "ok"
    /\ \E i \in 1..Len(outcomes[c].result) : ~HasField(o(outcomes[c].result[i]), name)

\* C24: Required<Person> has every property of Person, the optional ones included;
\* Partial<Person> may lack any property of Person, the required one included, and generates
\* the others from their types; the declaration Person stays as parsed, so Person itself is
\* generated with name always present before and after
C24_PartialRequired ==
  /\ (Editing("Form") /\ Called)
     => /\ last.out.t = "ok"
        /\ \A i \in 1..Len(Results) :
             LET o == Results[i]
             IN /\ PersonValues(Field(o, "req"))
                /\ FieldNames(Field(o, "req")) = {"name", "nick", "age"}
                /\ PersonValues(Field(o, "part"))
                /\ PersonValues(Field(o, "p")) /\ HasField(Field(o, "p"), "name")
                /\ PersonValues(Field(o, "q")) /\ HasField(Field(o, "q"), "name")
  /\ (Editing("Form") /\ Parsed)
     => /\ \A name \in {"name", "nick", "age"} : CanOmit(LAMBDA o : Field(o, "part"), name)
        /\ \A name \in {"nick", "age"} :
             CanOmit(LAMBDA o : Field(o, "p"), name) \/ CanOmit(LAMBDA o : Field(o, "q"), name)
        /\ interfaces = parseTypeScriptInterface(AllSources[code])
        /\ LET Person == interfaces.interfaces[find(interfaces.interfaces, "Person")].properties
           IN /\ ~Get(Person, "name").isOptional
              /\ Get(Person, "nick").isOptional
              /\ Get(Person, "age").isOptional

\* a Form whose Partial<Person> lacks the required name, whose Required<Person> has all three
\* properties, and whose Person generated after it lacks the optional age
C24_Witness ==
  /\ Editing("Form") /\ Returned
  /\ \E i \in 1..Len(Results) :
       /\ ~HasField(Field(Results[i], "part"), "name")
       /\ FieldNames(Field(Results[i], "req")) = {"name", "nick", "age"}
       /\ ~HasField(Field(Results[i], "q"), "age")

\* the declared optionality of a property
Optional(typeInfo) == Has(typeInfo, "isOptional") /\ typeInfo.isOptional

\* the object has every required property, no key that is not a declared property, and the
\* same holds, n levels down, of the objects built for its inline-object and entity properties
RECURSIVE ShapedAs(_, _, _)
ShapedAs(value, properties, n) ==
  /\ value.t = "obj"
  /\ {properties[p].k : p \in {q \in 1..Len(properties) : ~Optional(properties[q].v)}}
       \subseteq FieldNames(value)
  /\ FieldNames(value) \subseteq KeySet(properties)
  /\ n > 0 =>
       \A p \in 1..Len(properties) :
         LET typeInfo == properties[p].v
             at == IF typeInfo.kind = "unknown"
                   THEN find(interfaces.interfaces, typeInfo.name) ELSE 0
         IN HasField(value, properties[p].k) =>
              CASE typeInfo.kind = "object" /\ Has(typeInfo, "objectProperties") ->
                     ShapedAs(Field(value, properties[p].k), typeInfo.objectProperties, n - 1)
                [] at \in Entities(interfaces.interfaces) ->
                     ShapedAs(Field(value, properties[p].k),
                              interfaces.interfaces[at].properties, n - 1)
                [] OTHER -> TRUE

\* C25: in every object built from an entity declaration or an inline object node every
\* property that is not optional is a key, and every key is a declared property; only optional
\* properties can be absent
C25_ObjectShape ==
  Returned => \A i \in 1..Len(Results) : ShapedAs(Results[i], Root.properties, 3)

\* a Form with all its required properties, whose inline object lacks the optional b and whose
\* Person lacks the optional nick
C25_Witness ==
  /\ Editing("Form") /\ Returned
  /\ \E i \in 1..Len(Results) :
       /\ ShapedAs(Results[i], Root.properties, 3)
       /\ FieldNames(Field(Results[i], "inline")) = {"a"}
       /\ ~HasField(Field(Results[i], "p"), "nick")

\* an object generated from interface A { x: string; y: number }
IsA(o) ==
  /\ o.t = "obj" /\ Keys(o.v) = <<"x", "y">>
  /\ IsText(Field(o, "x"), "lorem.word")
  /\ IsInt(Field(o, "y"), 1, 1000)

\* C26: an intersection is generated as a plain object, the shallow merge in member order of
\* the members that are generated as non-array objects, a later member overwriting an earlier
\* one on a shared key; members generated as primitives, null or arrays add nothing
C26_IntersectionMerge ==
  (Editing("Mix") /\ Called)
  => /\ last.out.t = "ok"
     /\ \A i \in 1..Len(Results) :
          LET both == Field(Results[i], "both")
              over == Field(Results[i], "over")
          IN /\ both.t = "obj" /\ Keys(both.v) = <<"x", "y", "z">>
             /\ IsText(Field(both, "x"), "lorem.word")
             /\ IsInt(Field(both, "y"), 1, 1000)
             /\ Field(both, "z").t = "bool"
             /\ over.t = "obj" /\ Keys(over.v) = <<"x", "y">>
             /\ IsInt(Field(over, "x"), 1, 1000)
             /\ IsInt(Field(over, "y"), 1, 1000)
             /\ IsA(Field(Results[i], "prim"))
             /\ IsA(Field(Results[i], "tags"))
             /\ IsA(Field(Results[i], "nul"))
             /\ Field(Results[i], "lit") = Object(<<>>)

\* a Mix whose A & B has the keys of both, whose A & C has the number of C under x, and whose
\* 'x' & true is the empty object
C26_Witness ==
  /\ Editing("Mix") /\ Returned
  /\ Get(Root.properties, "over").kind = "intersection"
  /\ \E i \in 1..Len(Results) :
       /\ Keys(Field(Results[i], "both").v) = <<"x", "y", "z">>
       /\ Field(Field(Results[i], "over"), "x").t = "num"
       /\ Field(Results[i], "lit") = Object(<<>>)

\* a text value with the given characters
Text(s) == Str(Spell(s))

\* Lowercase, Uppercase and Uncapitalize of 'Hello World', and Uppercase of a generated job title
CaseTransformsButCapitalize(o) ==
  /\ Field(o, "low") = Text("hello world")
  /\ Field(o, "up") = Text("HELLO WORLD")
  /\ Field(o, "unc") = Text("hello World")
  /\ \E k \in 0..29 : Field(o, "title") = Str(Spell("PERSON.JOBTITLE-") \o DigitsOf(k))

\* C27: Lowercase and Uppercase give the base text in lower and upper case, Capitalize and
\* Uncapitalize change the case of the first character only and leave the other characters as
\* they are
C27_CaseUtilities ==
  (Editing("Case") /\ Called)
  => /\ last.out.t = "ok"
     /\ \A i \in 1..Len(Results) :
          /\ CaseTransformsButCapitalize(Results[i])
          /\ Field(Results[i], "cap") = Text("Hello World")
          /\ \E k \in 0..29 :
               Field(Results[i], "name") = Str(Spell("Person.firstName-") \o DigitsOf(k))

\* what the generator does: Capitalize also puts every character after the first in lower case
C27_CapitalizeLowersRest ==
  (Editing("Case") /\ Called)
  => /\ last.out.t = "ok"
     /\ \A i \in 1..Len(Results) :
          /\ CaseTransformsButCapitalize(Results[i])
          /\ Field(Results[i], "cap") = Text("Hello world")
          /\ \E k \in 0..29 :
               Field(Results[i], "name") = Str(Spell("Person.firstname-") \o DigitsOf(k))

RECURSIVE KeyWithin(_, _)
KeyWithin(value, key) ==
  CASE value.t = "obj" ->
         HasKey(value.v, key) \/ \E j \in 1..Len(value.v) : KeyWithin(value.v[j].v, key)
    [] value.t = "arr" -> \E j \in 1..Len(value.v) : KeyWithin(value.v[j], key)
    [] OTHER -> FALSE

\* C29: the reserved key __value of the alias pseudo-declarations is a key nowhere in a
\* generated value, also when Partial, Required, Pick or Omit is applied to an alias name
C29_NoReservedKey ==
  Returned => \A i \in 1..Len(Results) : ~KeyWithin(Results[i], "__value")

\* where the key does appear: Partial, Required and Omit of the alias Age are objects with the
\* single key __value; Pick<Age, 'x'> is the empty object
C29_AliasUnderUtility ==
  (Editing("Leak") /\ Called)
  => /\ last.out.t = "ok"
     /\ \A i \in 1..Len(Results) :
          /\ FieldNames(Field(Results[i], "pa")) \subseteq {"__value"}
          /\ FieldNames(Field(Results[i], "rq")) = {"__value"}
          /\ FieldNames(Field(Results[i], "om")) = {"__value"}
          /\ Field(Results[i], "pk") = Object(<<>>)

\* C30: on a declaration list that is not empty and has no entity declaration, only alias
\* pseudo-declarations, a call returns a seed and a result and does not throw
C30_AliasOnlyReturns ==
  (/\ Called
   /\ Len(interfaces.interfaces) > 0
   /\ Entities(interfaces.interfaces) = {})
  => /\ last.out.t = "ok"
     /\ last.out.seed = last.seed

\* what such a call does: it throws the TypeError of reading properties of undefined
C30_AliasOnlyThrows ==
  (/\ Called
   /\ Len(interfaces.interfaces) > 0
   /\ Entities(interfaces.interfaces) = {})
  => /\ last.out.t = "throw"
     /\ last.out.v = "TypeError"

====
